---- MODULE Spec2Model ----
(***************************************************************************)
(* Google Meet <-> Home Assistant extension: the background reconciler     *)
(* (updateMeetingStateIfNeeded), the delivery client with its retry policy *)
(* and connectivity probe (setEntityState and helpers) and the config      *)
(* validator (validateConfig).                                             *)
(*                                                                         *)
(* JavaScript strings are modelled as sequences of one-character strings,  *)
(* so that trim() and startsWith() are computed and not assumed.           *)
(* Every `await` of the source is a suspension point: the code between two *)
(* awaits runs as one action.                                              *)
(***************************************************************************)
EXTENDS Integers, Sequences, FiniteSets, TLC

\* ------------------------------------------------------------------ bounds
MaxTabs == 2
MaxHandlers == 2
MaxRetriesBound == 3

\* ------------------------------------------------------- program constants
DefaultMaxRetries == 3
DefaultBaseDelay == 1000

\* ------------------------------------------------------------- JS strings
\* The characters String.prototype.trim strips: WhiteSpace and LineTerminator
\* of the language definition. A code point that a string of this module
\* cannot hold is written as its code-point name; every other character of a
\* string is an element of length one, so a name stands for nothing else.
WhiteSpaceChars ==
    {"\t",        \* U+0009 TAB
     "",         \* U+000B VT
     "\f",        \* U+000C FF
     " ",         \* U+0020 SP
     " ",         \* U+00A0 NBSP
     " ",         \* U+1680 OGHAM SPACE MARK
     "﻿",         \* U+FEFF ZWNBSP
     "U+2000", "U+2001", "U+2002", "U+2003", "U+2004", "U+2005", "U+2006",
     "U+2007", "U+2008", "U+2009", "U+200A", "U+202F", "U+205F", "U+3000"}

LineTerminators == {"\n", "\r", "U+2028", "U+2029"}

Whitespace == WhiteSpaceChars \cup LineTerminators

RECURSIVE TrimStart(_)
TrimStart(s) ==
    IF s = <<>> THEN <<>>
    ELSE IF Head(s) \in Whitespace THEN TrimStart(Tail(s))
    ELSE s

RECURSIVE TrimEnd(_)
TrimEnd(s) ==
    IF s = <<>> THEN <<>>
    ELSE IF s[Len(s)] \in Whitespace THEN TrimEnd(SubSeq(s, 1, Len(s) - 1))
    ELSE s

\* String.prototype.trim
Trim(s) == TrimEnd(TrimStart(s))

\* String.prototype.startsWith
StartsWith(s, p) == Len(s) >= Len(p) /\ SubSeq(s, 1, Len(p)) = p

\* a field that is not set: no sequence of characters equals it
Undefined == <<"undefined">>

\* !s for a string field s: the empty string and undefined are falsy
Falsy(s) == s = <<>> \/ s = Undefined

HttpPrefix == <<"h", "t", "t", "p", ":", "/", "/">>
HttpsPrefix == <<"h", "t", "t", "p", "s", ":", "/", "/">>
Placeholder == <<"x", "x", "x", "x", "x", "x", "x">>

\* sample field values
StrEmpty == <<>>
StrBlank == <<" ">>
\* blank without a space: CR, NBSP (U+00A0), FF
StrBlankFeed == <<"\r", " ", "\f">>
StrHost == HttpPrefix \o <<"h", "a">>
StrHostS == HttpsPrefix \o <<"h", "a">>
StrHostBare == <<"h", "a">>
StrHostPadded == <<" ">> \o StrHost
StrToken == <<"a", "b", "c">>
StrEntity == <<"i", "b", ".", "m">>
StrHook == HttpsPrefix \o <<"x", "/", "y">>

\* ------------------------------------------------------------------ Config
ErrConfigureFirst == "Please configure the extension first"
ErrHostRequired == "Home Assistant host URL is required"
ErrHostScheme == "Home Assistant host URL must start with http:// or https://"
ErrEntityRequired == "Entity ID is required"
ErrTokenRequired == "API token is required for API method"
ErrWebhookRequired == "Webhook URL is required for webhook method"

Cfg(h, t, e, m, w) ==
    [host |-> h, token |-> t, entity_id |-> e, method |-> m, webhook_url |-> w]

defaultConfig == Cfg(StrEmpty, StrEmpty, StrEntity, "api", StrEmpty)

hostErrors(config) ==
    IF Falsy(config.host) \/ Trim(config.host) = <<>>
    THEN <<ErrHostRequired>>
    ELSE IF ~StartsWith(config.host, HttpPrefix) /\ ~StartsWith(config.host, HttpsPrefix)
    THEN <<ErrHostScheme>>
    ELSE <<>>

entityErrors(config) ==
    IF Falsy(config.entity_id) \/ Trim(config.entity_id) = <<>>
    THEN <<ErrEntityRequired>>
    ELSE <<>>

tokenErrorsNoPlaceholder(config) ==
    IF Falsy(config.token) \/ Trim(config.token) = <<>>
    THEN <<ErrTokenRequired>>
    ELSE <<>>

tokenErrors(config) ==
    IF Falsy(config.token) \/ Trim(config.token) = <<>> \/ config.token = Placeholder
    THEN <<ErrTokenRequired>>
    ELSE <<>>

webhookErrorsNoTrim(config) ==
    IF Falsy(config.webhook_url) THEN <<ErrWebhookRequired>> ELSE <<>>

webhookErrorsWithEntity(config) ==
    (IF Falsy(config.webhook_url) \/ Trim(config.webhook_url) = <<>>
     THEN <<ErrWebhookRequired>>
     ELSE <<>>) \o entityErrors(config)

webhookErrors(config) ==
    IF Falsy(config.webhook_url) \/ Trim(config.webhook_url) = <<>>
    THEN <<ErrWebhookRequired>>
    ELSE <<>>

isEmptyConfigNever(config) == FALSE

isEmptyConfigBlank(config) ==
    /\ Falsy(config.host) \/ Trim(config.host) = <<>>
    /\ Falsy(config.token) \/ Trim(config.token) = <<>>
    /\ Falsy(config.webhook_url) \/ Trim(config.webhook_url) = <<>>

\* !config.host && !config.token && !config.webhook_url
isEmptyConfig(config) ==
    Falsy(config.host) /\ Falsy(config.token) /\ Falsy(config.webhook_url)

validateConfigSilentFirstRun(config) ==
    IF isEmptyConfig(config)
    THEN [isValid |-> FALSE, errors |-> <<>>]
    ELSE LET errors ==
                 IF config.method = "api"
                 THEN hostErrors(config) \o entityErrors(config) \o tokenErrors(config)
                 ELSE IF config.method = "webhook"
                 THEN webhookErrors(config)
                 ELSE <<>>
         IN [isValid |-> Len(errors) = 0, errors |-> errors]

validateConfig(config) ==
    IF isEmptyConfig(config)
    THEN [isValid |-> FALSE, errors |-> <<ErrConfigureFirst>>]
    ELSE LET errors ==
                 IF config.method = "api"
                 THEN hostErrors(config) \o entityErrors(config) \o tokenErrors(config)
                 ELSE IF config.method = "webhook"
                 THEN webhookErrors(config)
                 ELSE <<>>
         IN [isValid |-> Len(errors) = 0, errors |-> errors]

\* ------------------------------------------------------------ HTTP, badge
Http(s) == [kind |-> "http", status |-> s]
NetworkError == [kind |-> "network", status |-> 0]
Aborted == [kind |-> "abort", status |-> 0]
NoError == [kind |-> "none", status |-> 0]
NoReply == [kind |-> "none", status |-> 0]

OkOnly200(r) == r.kind = "http" /\ r.status = 200

\* Response.ok: status in the range 200-299
Ok(r) == r.kind = "http" /\ r.status >= 200 /\ r.status <= 299

Statuses == {200, 204, 404, 500}
Responses == {Http(s) : s \in Statuses} \cup {NetworkError}
ProbeResponses == {Http(200), Http(204), Http(500), NetworkError, Aborted}

BadgeInitial == [text |-> "", color |-> "default"]
BadgeOn == [text |-> "ON", color |-> "#FF0000"]
BadgeOff == [text |-> "", color |-> "#00FF00"]
BadgeError == [text |-> "!", color |-> "orange"]

\* the boolean | null cache is held as "null", "true" or "false"
B(b) == IF b THEN "true" ELSE "false"
OnOff(b) == IF b THEN "on" ELSE "off"

Req(kind, newValue) == [kind |-> kind, value |-> OnOff(newValue)]

NoValidation == [isValid |-> FALSE, errors |-> <<>>]

\* TestResult {success, message}: the message is a translation key followed,
\* where the code appends one, by ": HTTP " + status or ": " + error
TestResult(success, key, detail) == [success |-> success, key |-> key, detail |-> detail]
NoOutcome == TestResult(FALSE, "none", NoReply)

\* a browser event: its name and, for tabs.onUpdated, changeInfo.status
Event(name, status) == [name |-> name, status |-> status]
NoTrigger == Event("none", "none")

\* ------------------------------------------------------------------- state
Handlers == 1..MaxHandlers

VARIABLES
    tabs,           \* number of open tabs matching https://meet.google.com/*-*-*
    storage,        \* the Config held by chrome.storage.sync
    wasInMeeting,   \* background.ts: let wasInMeeting: boolean | null
    badge,          \* the action badge (text and colour)
    target,         \* last value a successful request delivered to Home Assistant
    frame,          \* per invocation: position and locals of the async call chain
    previous,       \* observation: the invocation that finished before the current one
    queries         \* observation: the tab queries issued and not yet compared, in order

vars == <<tabs, storage, wasInMeeting, badge, target, frame, previous, queries>>

\* pc: the await the invocation is suspended at.  prev, calls, replies, waits,
\* invocations, sent, probes, probeReply and result record what happened;
\* latest marks the invocation that assigned wasInMeeting most recently;
\* trigger is the event whose listener made the call, kept until the tab query
\* is answered.
IdleFrame ==
    [pc |-> "idle", caller |-> "none", isInMeeting |-> FALSE, prev |-> "unset",
     config |-> defaultConfig, validation |-> NoValidation, probeReply |-> NoReply,
     attempt |-> 0, maxRetries |-> 0, baseDelay |-> 0, lastError |-> NoError,
     calls |-> <<>>, replies |-> <<>>, waits |-> <<>>, invocations |-> 0,
     sent |-> 0, probes |-> 0, result |-> "none", latest |-> FALSE,
     outcome |-> NoOutcome, trigger |-> NoTrigger]

Terminal == {"idle", "done", "rejected", "returned", "thrown"}

\* what is remembered of an invocation once the next one has been called
Summary(f) == [pc |-> f.pc, isInMeeting |-> f.isInMeeting, probes |-> f.probes,
               result |-> f.result]

ConfigApi == Cfg(StrHost, StrToken, StrEntity, "api", StrEmpty)
ConfigWebhook == Cfg(StrEmpty, StrEmpty, StrEntity, "webhook", StrHook)
ConfigBadHost == Cfg(StrHostBare, StrToken, StrEntity, "api", StrEmpty)
ConfigEmptyWebhook == Cfg(StrEmpty, StrEmpty, StrEntity, "webhook", StrEmpty)
StoredConfigs == {defaultConfig, ConfigEmptyWebhook, ConfigApi, ConfigWebhook, ConfigBadHost}

\* no tab query was issued yet
NoQueries == [pending |-> <<>>, latest |-> 0]

Init ==
    /\ tabs \in 0..MaxTabs
    /\ storage \in StoredConfigs
    /\ wasInMeeting = "null"
    /\ badge = BadgeInitial
    /\ target = "unknown"
    /\ frame = [h \in Handlers |-> IdleFrame]
    /\ previous = Summary(IdleFrame)
    /\ queries = NoQueries

\* --------------------------------------------------------- frame helpers
RECURSIVE Pow(_, _)
\* Math.pow for a non-negative integer exponent
Pow(b, e) == IF e = 0 THEN 1 ELSE b * Pow(b, e - 1)

\* the first free invocation slot (invocations are anonymous closures)
FreeSlots == {h \in Handlers : frame[h].pc \in Terminal}
IsFirstFree(h) == h \in FreeSlots /\ \A g \in FreeSlots : h <= g

\* updateMeetingStateIfNeeded() is called: chrome.tabs.query is issued
Invoked == [IdleFrame EXCEPT !.pc = "query", !.caller = "reconciler"]

\* the listener of event calls updateMeetingStateIfNeeded
InvokedBy(event) == [Invoked EXCEPT !.trigger = event]

\* the handler has finished: the locals of the retry loop are gone; what the
\* invocation observed, loaded and sent is kept for inspection
Finished(f, result) ==
    [IdleFrame EXCEPT !.pc = "done", !.caller = f.caller, !.isInMeeting = f.isInMeeting,
                      !.prev = f.prev, !.config = f.config, !.validation = f.validation,
                      !.probeReply = f.probeReply, !.sent = f.sent, !.probes = f.probes,
                      !.result = result, !.latest = f.latest]

NewValueFromCache(f) == wasInMeeting = "true"

\* setEntityState(config, isInMeeting): the closures fn capture the argument
NewValue(f) == f.isInMeeting

CarriedCurrent(f) == OnOff(wasInMeeting = "true")

\* the value the request just answered carried
Carried(f) == f.calls[Len(f.calls)].value

CallFnReprobe(f) ==
    LET kind == IF f.config.method = "webhook" THEN "webhook" ELSE "service"
    IN [f EXCEPT !.pc = kind, !.calls = <<Req(kind, NewValue(f))>>, !.replies = <<>>,
                 !.sent = @ + 1, !.invocations = @ + 1, !.probes = @ + 1]

\* fn() of setEntityState is invoked: the first request of the strategy is sent
CallFn(f) ==
    LET kind == IF f.config.method = "webhook" THEN "webhook" ELSE "service"
    IN [f EXCEPT !.pc = kind, !.calls = <<Req(kind, NewValue(f))>>, !.replies = <<>>,
                 !.sent = @ + 1, !.invocations = @ + 1]

\* retryWithBackoff(fn, maxRetries, baseDelay) is entered: attempt = 0, fn()
EnterRetry(f, maxRetries, baseDelay) ==
    CallFn([f EXCEPT !.attempt = 0, !.maxRetries = maxRetries, !.baseDelay = baseDelay,
                     !.lastError = NoError, !.waits = <<>>, !.invocations = 0])

\* fn() resolved: retryWithBackoff returns its result (undefined); under
\* setEntityState the handler sees success !== false and finishes
FnResolved(f) ==
    IF f.caller = "reconciler" THEN Finished(f, "delivered")
    ELSE [f EXCEPT !.pc = "returned", !.result = "undefined"]

DelayLinear(baseDelay, attempt) == baseDelay * (attempt + 1)

\* const delay = baseDelay * Math.pow(2, attempt)
Delay(baseDelay, attempt) == baseDelay * Pow(2, attempt)

FnThrewFirstError(f, error) ==
    LET first == IF f.lastError = NoError THEN error ELSE f.lastError IN
    IF f.attempt = f.maxRetries
    THEN IF f.caller = "reconciler" THEN Finished(f, "failed")
         ELSE [f EXCEPT !.pc = "thrown", !.lastError = first, !.result = "thrown"]
    ELSE [f EXCEPT !.pc = "backoff", !.lastError = first,
                   !.waits = Append(@, Delay(f.baseDelay, f.attempt))]

FnThrewRestart(f, error) ==
    IF f.attempt = f.maxRetries
    THEN [f EXCEPT !.pc = "backoff", !.attempt = 0, !.invocations = 0, !.sent = 0,
                   !.lastError = error, !.waits = <<>>]
    ELSE [f EXCEPT !.pc = "backoff", !.lastError = error,
                   !.waits = Append(@, Delay(f.baseDelay, f.attempt))]

FnThrewHttpOnly(f, error) ==
    IF f.attempt = f.maxRetries \/ error.kind # "http"
    THEN IF f.caller = "reconciler" THEN Finished(f, "failed")
         ELSE [f EXCEPT !.pc = "thrown", !.lastError = error, !.result = "thrown"]
    ELSE [f EXCEPT !.pc = "backoff", !.lastError = error,
                   !.waits = Append(@, Delay(f.baseDelay, f.attempt))]

\* fn() threw error: the catch block of retryWithBackoff
FnThrew(f, error) ==
    IF f.attempt = f.maxRetries
    THEN \* throw lastError; setEntityState catches it and returns false
         IF f.caller = "reconciler" THEN Finished(f, "failed")
         ELSE [f EXCEPT !.pc = "thrown", !.lastError = error, !.result = "thrown"]
    ELSE [f EXCEPT !.pc = "backoff", !.lastError = error,
                   !.waits = Append(@, Delay(f.baseDelay, f.attempt))]

BadgeAfterKeep(f, b) == b

BadgeAfterNotTruthy(f, b) ==
    IF f.pc = "done" /\ f.result \in {"failed", "offline", "loadfail", "delivered"}
    THEN BadgeError ELSE b

\* the badge after the handler's `success === false` branch or catch block
BadgeAfter(f, b) ==
    IF f.pc = "done" /\ f.result \in {"failed", "offline", "loadfail"} THEN BadgeError ELSE b

\* ------------------------------------------------------------ tab events
\* chrome.runtime.onInstalled
OnInstalled(h) ==
    /\ IsFirstFree(h)
    /\ frame' = [frame EXCEPT ![h] = InvokedBy(Event("onInstalled", "none"))]
    /\ UNCHANGED <<tabs, storage, wasInMeeting, badge, target>>

\* chrome.tabs.onRemoved: a tab was closed (matching the Meet pattern or not)
OnRemoved(h, matching) ==
    /\ IsFirstFree(h)
    /\ matching => tabs > 0
    /\ tabs' = IF matching THEN tabs - 1 ELSE tabs
    /\ frame' = [frame EXCEPT ![h] = InvokedBy(Event("onRemoved", "none"))]
    /\ UNCHANGED <<storage, wasInMeeting, badge, target>>

StartsReconcileAlways(status) == TRUE

\* if (changeInfo.status === "complete")
StartsReconcile(status) == status = "complete"

\* chrome.tabs.onUpdated: delta is the change of the number of matching tabs
\* the update brought (a tab entered a Meet URL, left it, or neither)
OnUpdated(h, status, delta) ==
    /\ tabs + delta \in 0..MaxTabs
    /\ tabs' = tabs + delta
    /\ IF StartsReconcile(status)
       THEN /\ IsFirstFree(h)
            /\ frame' = [frame EXCEPT ![h] = InvokedBy(Event("onUpdated", status))]
       ELSE UNCHANGED frame
    /\ UNCHANGED <<storage, wasInMeeting, badge, target>>

\* the options page saves a Config
SaveConfig(c) ==
    /\ storage # c
    /\ storage' = c
    /\ UNCHANGED <<tabs, wasInMeeting, badge, target, frame>>

\* ------------------------------------------- updateMeetingStateIfNeeded
PresenceExactlyOne(count) == count = 1

\* const isInMeeting = tabs.length > 0
Presence(count) == count > 0

\* the browser answers chrome.tabs.query with the tabs open at that moment
QueryAnswered(h) ==
    /\ frame[h].pc = "query"
    /\ frame' = [frame EXCEPT ![h] = [@ EXCEPT !.pc = "queried", !.trigger = NoTrigger,
                                               !.isInMeeting = Presence(tabs)]]
    /\ UNCHANGED <<tabs, storage, wasInMeeting, badge, target>>

\* chrome.tabs.query rejects: the await is outside the try block
QueryRejected(h) ==
    /\ frame[h].pc = "query"
    /\ frame' = [frame EXCEPT ![h] = [@ EXCEPT !.pc = "rejected", !.trigger = NoTrigger,
                                               !.result = "rejected"]]
    /\ UNCHANGED <<tabs, storage, wasInMeeting, badge, target>>

ChangedNullAsFalse(was, isInMeeting) == (was = "true") # isInMeeting

ChangedAlways(was, isInMeeting) == TRUE

ChangedOrErrorShown(was, isInMeeting) == was # B(isInMeeting) \/ badge = BadgeError

ChangedOrStale(was, isInMeeting) == was # B(isInMeeting) \/ target # OnOff(isInMeeting)

\* !(wasInMeeting === isInMeeting)
Changed(was, isInMeeting) == was # B(isInMeeting)

CacheStale(was, isInMeeting) == was

CacheNullOnLeave(was, isInMeeting) == IF isInMeeting THEN "true" ELSE "null"

\* wasInMeeting = isInMeeting
Cache(was, isInMeeting) == B(isInMeeting)

BadgeForLater(isInMeeting) == badge

\* the badge set right after the assignment: "ON" red, or "" green
BadgeFor(isInMeeting) == IF isInMeeting THEN BadgeOn ELSE BadgeOff

\* the handler resumes with the tabs: compare, cache, badge, loadConfig()
Compare(h) ==
    LET f == frame[h] IN
    /\ f.pc = "queried"
    /\ IF Changed(wasInMeeting, f.isInMeeting)
       THEN /\ wasInMeeting' = Cache(wasInMeeting, f.isInMeeting)
            /\ badge' = BadgeFor(f.isInMeeting)
            /\ frame' = [g \in Handlers |->
                            IF g = h
                            THEN [f EXCEPT !.pc = "loadConfig", !.prev = wasInMeeting,
                                           !.latest = TRUE]
                            ELSE [frame[g] EXCEPT !.latest = FALSE]]
       ELSE /\ frame' = [frame EXCEPT ![h] =
                            Finished([f EXCEPT !.prev = wasInMeeting], "nochange")]
            /\ UNCHANGED <<wasInMeeting, badge>>
    /\ UNCHANGED <<tabs, storage, target>>

SkipNever(validation) == FALSE

\* if (!validation.isValid) return
SkipUpdate(validation) == ~validation.isValid

\* loadConfig() resolved: validateConfig, then setEntityState starts the probe
ConfigLoaded(h) ==
    LET f == frame[h]
        g == [f EXCEPT !.config = storage, !.validation = validateConfig(storage)]
    IN
    /\ f.pc = "loadConfig"
    /\ frame' = [frame EXCEPT ![h] =
                    IF SkipUpdate(g.validation)
                    THEN Finished(g, "invalid")
                    ELSE [g EXCEPT !.pc = "probe", !.probes = @ + 1]]
    /\ UNCHANGED <<tabs, storage, wasInMeeting, badge, target>>

\* loadConfig() rejected: the catch block of the handler
ConfigLoadFailed(h) ==
    LET f == frame[h]
        g == Finished(f, "loadfail")
    IN
    /\ f.pc = "loadConfig"
    /\ frame' = [frame EXCEPT ![h] = g]
    /\ badge' = BadgeAfter(g, badge)
    /\ UNCHANGED <<tabs, storage, wasInMeeting, target>>

\* ------------------------------------------------------- setEntityState
checkNetworkConnectivityAlways(r) == TRUE

checkNetworkConnectivityAnyResponse(r) == r.kind = "http"

\* checkNetworkConnectivity: response.ok, or false from the catch block
checkNetworkConnectivity(r) == Ok(r)

\* the HEAD request of the probe ended with r
Probed(h, r) ==
    LET f == [frame[h] EXCEPT !.probeReply = r]
        g == IF checkNetworkConnectivity(r)
             THEN EnterRetry(f, DefaultMaxRetries, DefaultBaseDelay)
             ELSE Finished(f, "offline")
    IN
    /\ frame[h].pc = "probe"
    /\ frame' = [frame EXCEPT ![h] = g]
    /\ badge' = BadgeAfter(g, badge)
    /\ UNCHANGED <<tabs, storage, wasInMeeting, target>>

\* setEntityStateWebhook: the POST to webhook_url ended with r
WebhookResponded(h, r) ==
    LET f == [frame[h] EXCEPT !.replies = Append(@, r)]
        g == IF Ok(r) THEN FnResolved(f) ELSE FnThrew(f, r)
    IN
    /\ frame[h].pc = "webhook"
    /\ frame' = [frame EXCEPT ![h] = g]
    /\ target' = IF Ok(r) THEN Carried(f) ELSE target
    /\ badge' = BadgeAfter(g, badge)
    /\ UNCHANGED <<tabs, storage, wasInMeeting>>

NeedsFallbackNever(r) == FALSE

NeedsFallbackOnException(r) == ~Ok(r)

\* if (!response.ok), reached only when fetch resolved with a response
NeedsFallback(r) == r.kind = "http" /\ ~Ok(r)

\* setEntityStateAPI: the service call ended with r
ServiceResponded(h, r) ==
    LET f == [frame[h] EXCEPT !.replies = Append(@, r)]
        g == IF NeedsFallback(r)
             THEN [f EXCEPT !.pc = "fallback", !.calls = Append(@, Req("state", NewValue(f))),
                            !.sent = @ + 1]
             ELSE IF Ok(r) THEN FnResolved(f)
             ELSE FnThrew(f, r)
    IN
    /\ frame[h].pc = "service"
    /\ frame' = [frame EXCEPT ![h] = g]
    /\ target' = IF Ok(r) THEN Carried(f) ELSE target
    /\ badge' = BadgeAfter(g, badge)
    /\ UNCHANGED <<tabs, storage, wasInMeeting>>

\* setEntityStateAPI: the direct state-set request ended with r
FallbackResponded(h, r) ==
    LET f == [frame[h] EXCEPT !.replies = Append(@, r)]
        g == IF Ok(r) THEN FnResolved(f) ELSE FnThrew(f, r)
    IN
    /\ frame[h].pc = "fallback"
    /\ frame' = [frame EXCEPT ![h] = g]
    /\ target' = IF Ok(r) THEN Carried(f) ELSE target
    /\ badge' = BadgeAfter(g, badge)
    /\ UNCHANGED <<tabs, storage, wasInMeeting>>

\* retryWithBackoff: the setTimeout of the backoff fired, next attempt
BackoffElapsed(h) ==
    LET f == frame[h] IN
    /\ f.pc = "backoff"
    /\ frame' = [frame EXCEPT ![h] = CallFn([f EXCEPT !.attempt = @ + 1])]
    /\ UNCHANGED <<tabs, storage, wasInMeeting, badge, target>>

\* retryWithBackoff(fn, maxRetries, baseDelay) called on its own, fn being a
\* delivery strategy for config and newValue
BaseDelays == {DefaultBaseDelay, 250}
RetryConfigs == {ConfigApi, ConfigWebhook}

retryWithBackoff(h, config, newValue, maxRetries, baseDelay) ==
    /\ IsFirstFree(h)
    /\ frame' = [frame EXCEPT ![h] =
                    EnterRetry([IdleFrame EXCEPT !.caller = "direct", !.config = config,
                                                 !.isInMeeting = newValue],
                               maxRetries, baseDelay)]
    /\ UNCHANGED <<tabs, storage, wasInMeeting, badge, target>>

\* ------------------------------------------------------- testConnection
TestStatuses == {200, 204, 401, 404, 500}
TestResponses == {Http(s) : s \in TestStatuses} \cup {NetworkError}
TestConfigs == {defaultConfig, ConfigApi, ConfigWebhook}

\* the GET of the entity state, and the POST of value "on"
TestGet == [kind |-> "get", value |-> "none"]
TestPost == Req("webhook", TRUE)

testConnectionAPIAnyOk(r) ==
    IF Ok(r) THEN TestResult(TRUE, "test.apiValid", NoReply)
    ELSE TestResult(FALSE, "test.unexpectedError", r)

\* the switch on status, and the catch block
testConnectionAPI(r) ==
    IF r.kind # "http" THEN TestResult(FALSE, "test.unexpectedError", r)
    ELSE IF r.status = 200 THEN TestResult(TRUE, "test.apiValid", NoReply)
    ELSE IF r.status = 401 THEN TestResult(FALSE, "test.invalidToken", NoReply)
    ELSE IF r.status = 404 THEN TestResult(FALSE, "test.entityNotFound", NoReply)
    ELSE TestResult(FALSE, "test.unexpectedError", r)

testConnectionWebhookAnyOk(r) ==
    IF Ok(r) THEN TestResult(TRUE, "test.webhookValid", NoReply)
    ELSE TestResult(FALSE, "test.webhookFailed", r)

\* if (response.status === 200), and the catch block
testConnectionWebhook(r) ==
    IF r.kind = "http" /\ r.status = 200 THEN TestResult(TRUE, "test.webhookValid", NoReply)
    ELSE TestResult(FALSE, "test.webhookFailed", r)

TestReturnedOrThrown(f, r, outcome) ==
    IF r.kind = "http"
    THEN [f EXCEPT !.pc = "returned", !.replies = <<r>>, !.outcome = outcome,
                   !.result = "tested"]
    ELSE [f EXCEPT !.pc = "thrown", !.replies = <<r>>, !.result = "thrown"]

\* every path of the two test functions ends with `return {success, message}`
TestReturned(f, r, outcome) ==
    [f EXCEPT !.pc = "returned", !.replies = <<r>>, !.outcome = outcome, !.result = "tested"]

\* testConnection(config) is called by the options page: it dispatches on
\* config.method and the one request of the test is sent
testConnection(h, config) ==
    LET webhook == config.method = "webhook" IN
    /\ frame[h].pc \in Terminal
    /\ frame' = [frame EXCEPT ![h] =
                    [IdleFrame EXCEPT !.pc = IF webhook THEN "testWebhook" ELSE "testApi",
                                      !.caller = "test", !.config = config,
                                      !.calls = <<IF webhook THEN TestPost ELSE TestGet>>,
                                      !.sent = 1]]
    /\ UNCHANGED <<tabs, storage, wasInMeeting, badge, target>>

\* testConnectionAPI: the GET ended with r
TestApiResponded(h, r) ==
    /\ frame[h].pc = "testApi"
    /\ frame' = [frame EXCEPT ![h] = TestReturned(@, r, testConnectionAPI(r))]
    /\ UNCHANGED <<tabs, storage, wasInMeeting, badge, target>>

\* testConnectionWebhook: the POST ended with r; a webhook that accepted it
\* has received value "on"
TestWebhookResponded(h, r) ==
    /\ frame[h].pc = "testWebhook"
    /\ frame' = [frame EXCEPT ![h] = TestReturned(@, r, testConnectionWebhook(r))]
    /\ target' = IF Ok(r) THEN Carried(frame[h]) ELSE target
    /\ UNCHANGED <<tabs, storage, wasInMeeting, badge>>

\* ------------------------------------------------------- specifications
TabEvent(h) ==
    \/ OnInstalled(h)
    \/ \E matching \in BOOLEAN : OnRemoved(h, matching)
    \/ \E status \in {"loading", "complete"}, delta \in {-1, 0, 1} : OnUpdated(h, status, delta)

Reconcile(h) ==
    \/ QueryAnswered(h)
    \/ QueryRejected(h)
    \/ Compare(h)
    \/ ConfigLoaded(h)
    \/ ConfigLoadFailed(h)
    \/ \E r \in ProbeResponses : Probed(h, r)

Deliver(h) ==
    \/ \E r \in Responses : WebhookResponded(h, r)
    \/ \E r \in Responses : ServiceResponded(h, r)
    \/ \E r \in Responses : FallbackResponded(h, r)
    \/ BackoffElapsed(h)

\* the invocation that had finished when the current one was called
Observe(h) ==
    /\ previous' = IF frame[h].pc \in Terminal /\ frame'[h].pc = "query"
                   THEN Summary(frame[h]) ELSE previous
    /\ UNCHANGED queries

\* the reconciler with non-overlapping invocations: an event that calls the
\* handler arrives only when the previous invocation has finished
Next ==
    \/ TabEvent(1) /\ Observe(1)
    \/ Reconcile(1) /\ UNCHANGED <<previous, queries>>
    \/ Deliver(1) /\ UNCHANGED <<previous, queries>>
    \/ (\E c \in StoredConfigs : SaveConfig(c)) /\ UNCHANGED <<previous, queries>>

Spec == Init /\ [][Next]_vars

\* every pending tab query, config load, probe and request is answered (it
\* resolves or rejects) and every backoff timer fires
Fairness ==
    /\ WF_vars(Reconcile(1) /\ UNCHANGED <<previous, queries>>)
    /\ WF_vars(Deliver(1) /\ UNCHANGED <<previous, queries>>)

SpecLive == Init /\ [][Next]_vars /\ Fairness

\* the retry policy called with arbitrary bounds and delays
NextRetry ==
    \/ /\ \E config \in RetryConfigs, newValue \in BOOLEAN,
             maxRetries \in 0..MaxRetriesBound, baseDelay \in BaseDelays :
             retryWithBackoff(1, config, newValue, maxRetries, baseDelay)
       /\ UNCHANGED <<previous, queries>>
    \/ Deliver(1) /\ UNCHANGED <<previous, queries>>

InitRetry == Init /\ tabs = 0 /\ storage = defaultConfig

SpecRetry == InitRetry /\ [][NextRetry]_vars

\* validateConfig called on its own (options page, popup) with any Config
HostValues == {Undefined, StrEmpty, StrBlank, StrBlankFeed, StrHost, StrHostS, StrHostBare, StrHostPadded}
TokenValues == {Undefined, StrEmpty, StrBlank, StrBlankFeed, StrToken, Placeholder}
EntityValues == {Undefined, StrEmpty, StrBlank, StrBlankFeed, StrEntity}
WebhookValues == {Undefined, StrEmpty, StrBlank, StrBlankFeed, StrHook}
UpdateMethod == {"api", "webhook"}

ValidatorInputs ==
    {Cfg(h, t, e, m, w) : h \in HostValues, t \in TokenValues, e \in EntityValues,
                          m \in UpdateMethod, w \in WebhookValues}

Validate(h, config) ==
    /\ IsFirstFree(h)
    /\ frame' = [frame EXCEPT ![h] =
                    [IdleFrame EXCEPT !.pc = "returned", !.caller = "validate",
                                      !.config = config,
                                      !.validation = validateConfig(config),
                                      !.result = "validated"]]
    /\ UNCHANGED <<tabs, storage, wasInMeeting, badge, target>>

NextValidate ==
    /\ \E config \in ValidatorInputs : Validate(1, config)
    /\ UNCHANGED <<previous, queries>>

SpecValidate == InitRetry /\ [][NextValidate]_vars

\* the reconciler with overlapping invocations: every event starts a new
\* invocation while earlier ones are suspended at an await; the Config is a
\* valid one and stays as stored
OverlapConfigs == {ConfigApi, ConfigWebhook}
OverlapResponses == {Http(200), Http(500)}
OverlapProbeResponses == {Http(200), NetworkError}

ReconcileOverlap(h) ==
    \/ QueryAnswered(h)
    \/ Compare(h)
    \/ ConfigLoaded(h)
    \/ ConfigLoadFailed(h)
    \/ \E r \in OverlapProbeResponses : Probed(h, r)

DeliverOverlap(h) ==
    \/ \E r \in OverlapResponses : WebhookResponded(h, r)
    \/ \E r \in OverlapResponses : ServiceResponded(h, r)
    \/ \E r \in OverlapResponses : FallbackResponded(h, r)
    \/ BackoffElapsed(h)

NextOverlap ==
    \E h \in Handlers :
        /\ TabEvent(h) \/ ReconcileOverlap(h) \/ DeliverOverlap(h)
        /\ UNCHANGED <<previous, queries>>

InitOverlap == Init /\ storage \in OverlapConfigs

SpecOverlap == InitOverlap /\ [][NextOverlap]_vars

\* a reachable target: the Config is valid and can be read, the probe
\* succeeds, and the target accepts a request at the last attempt at the latest
AcceptedBy(f, kind) ==
    IF f.attempt < f.maxRetries THEN Responses
    ELSE IF kind = "service" THEN {Http(200), Http(500)}
    ELSE {Http(200), Http(204)}

ReconcileAccepting(h) ==
    \/ QueryAnswered(h)
    \/ Compare(h)
    \/ ConfigLoaded(h)
    \/ \E r \in {Http(200), Http(204)} : Probed(h, r)

DeliverAccepting(h) ==
    \/ \E r \in AcceptedBy(frame[h], "webhook") : WebhookResponded(h, r)
    \/ \E r \in AcceptedBy(frame[h], "service") : ServiceResponded(h, r)
    \/ \E r \in AcceptedBy(frame[h], "state") : FallbackResponded(h, r)
    \/ BackoffElapsed(h)

NextAccepting ==
    \/ TabEvent(1) /\ Observe(1)
    \/ ReconcileAccepting(1) /\ UNCHANGED <<previous, queries>>
    \/ DeliverAccepting(1) /\ UNCHANGED <<previous, queries>>

SpecAccepting ==
    /\ InitOverlap /\ [][NextAccepting]_vars
    /\ WF_vars(ReconcileAccepting(1) /\ UNCHANGED <<previous, queries>>)
    /\ WF_vars(DeliverAccepting(1) /\ UNCHANGED <<previous, queries>>)

\* overlapping invocations whose tab-query results are delivered in the order
\* the queries were issued: the handler that resumes at the comparison is the
\* one whose query is the oldest pending
Issue(h) ==
    queries' = IF frame[h].pc # "query" /\ frame'[h].pc = "query"
               THEN [pending |-> Append(queries.pending, h), latest |-> h]
               ELSE queries

InOrder(h) ==
    /\ queries.pending # <<>>
    /\ Head(queries.pending) = h
    /\ queries' = [queries EXCEPT !.pending = Tail(@)]

NextFifo ==
    \E h \in Handlers :
        /\ \/ TabEvent(h) /\ Issue(h)
           \/ QueryAnswered(h) /\ UNCHANGED queries
           \/ InOrder(h) /\ Compare(h)
           \/ ConfigLoaded(h) /\ UNCHANGED queries
           \/ ConfigLoadFailed(h) /\ UNCHANGED queries
           \/ (\E r \in OverlapProbeResponses : Probed(h, r)) /\ UNCHANGED queries
           \/ DeliverOverlap(h) /\ UNCHANGED queries
        /\ UNCHANGED previous

SpecFifo == InitOverlap /\ [][NextFifo]_vars

\* the keep-alive variant of the background script: the script calls the
\* handler once when it is evaluated, before any event is dispatched
StartUp(h) ==
    /\ h = 1
    /\ \A g \in Handlers : frame[g].pc = "idle"
    /\ frame' = [frame EXCEPT ![h] = InvokedBy(Event("startup", "none"))]
    /\ UNCHANGED <<tabs, storage, wasInMeeting, badge, target>>

\* the script has been evaluated: its start-up call has been made
Evaluated == frame[1].pc # "idle"

\* the messages of the keep-alive script's own validateConfig
ErrUrlRequired == "Home Assistant URL is required"
ErrUrlScheme == "Home Assistant URL must start with http:// or https://"
ErrAuthRequired == "Authorization token is required"
ErrHookRequired == "Webhook URL is required"

\* the keep-alive script's own validateConfig: the rules of config.ts, other
\* messages for the host, the token and the webhook URL
validateConfigKeepAlive(config) ==
    IF Falsy(config.host) /\ Falsy(config.token) /\ Falsy(config.webhook_url)
    THEN [isValid |-> FALSE, errors |-> <<ErrConfigureFirst>>]
    ELSE LET host ==
                 IF Falsy(config.host) \/ Trim(config.host) = <<>>
                 THEN <<ErrUrlRequired>>
                 ELSE IF /\ ~StartsWith(config.host, HttpPrefix)
                         /\ ~StartsWith(config.host, HttpsPrefix)
                 THEN <<ErrUrlScheme>>
                 ELSE <<>>
             entity ==
                 IF Falsy(config.entity_id) \/ Trim(config.entity_id) = <<>>
                 THEN <<ErrEntityRequired>>
                 ELSE <<>>
             token ==
                 IF \/ Falsy(config.token)
                    \/ Trim(config.token) = <<>>
                    \/ config.token = Placeholder
                 THEN <<ErrAuthRequired>>
                 ELSE <<>>
             hook ==
                 IF Falsy(config.webhook_url) \/ Trim(config.webhook_url) = <<>>
                 THEN <<ErrHookRequired>>
                 ELSE <<>>
             errors ==
                 IF config.method = "api" THEN host \o entity \o token
                 ELSE IF config.method = "webhook" THEN hook
                 ELSE <<>>
         IN [isValid |-> Len(errors) = 0, errors |-> errors]

\* the keep-alive script's own loadConfig: a rejected storage read is caught
\* there and answered with defaultConfig (its language field is not modelled)
loadConfigKeepAlive(stored, rejected) == IF rejected THEN defaultConfig ELSE stored

\* loadConfig() returned, after the read resolved or after its catch block:
\* validateConfig, then either the return without a badge change or the probe
ConfigLoadedKeepAlive(h, rejected) ==
    LET f == frame[h]
        config == loadConfigKeepAlive(storage, rejected)
        g == [f EXCEPT !.config = config,
                       !.validation = validateConfigKeepAlive(config)]
    IN
    /\ f.pc = "loadConfig"
    /\ frame' = [frame EXCEPT ![h] =
                    IF SkipUpdate(g.validation)
                    THEN Finished(g, "invalid")
                    ELSE [g EXCEPT !.pc = "probe", !.probes = @ + 1]]
    /\ UNCHANGED <<tabs, storage, wasInMeeting, badge, target>>

ReconcileKeepAlive(h) ==
    \/ QueryAnswered(h)
    \/ Compare(h)
    \/ \E rejected \in BOOLEAN : ConfigLoadedKeepAlive(h, rejected)
    \/ \E r \in OverlapProbeResponses : Probed(h, r)

\* start-up: invocations overlap while the set of matching tabs stays as it is
\* (the start-up call, then onInstalled and a page that finished loading in a
\* tab whose matching did not change)
NextStartup ==
    \E h \in Handlers :
        /\ \/ StartUp(h)
           \/ Evaluated /\ OnInstalled(h)
           \/ Evaluated /\ OnUpdated(h, "complete", 0)
           \/ ReconcileKeepAlive(h)
           \/ DeliverOverlap(h)
        /\ UNCHANGED <<previous, queries>>

SpecStartup == InitOverlap /\ [][NextStartup]_vars

\* the options page tests the connection (its call holds the last slot) while
\* the background reconciler handles tab events one at a time
TestSlot == MaxHandlers

Test(h) ==
    \/ \E config \in TestConfigs : testConnection(h, config)
    \/ \E r \in TestResponses : TestApiResponded(h, r)
    \/ \E r \in TestResponses : TestWebhookResponded(h, r)

NextTest ==
    \/ TabEvent(1) /\ Observe(1)
    \/ (ReconcileOverlap(1) \/ DeliverOverlap(1)) /\ UNCHANGED <<previous, queries>>
    \/ Test(TestSlot) /\ UNCHANGED <<previous, queries>>

SpecTest == InitOverlap /\ [][NextTest]_vars

\* one webhook URL is used both ways: the options page tests it (last slot)
\* and setEntityStateWebhook delivers to it once, without retry (slot 1)
NextAgree ==
    /\ \/ \E newValue \in BOOLEAN :
              retryWithBackoff(1, ConfigWebhook, newValue, 0, DefaultBaseDelay)
       \/ \E r \in TestResponses : WebhookResponded(1, r)
       \/ testConnection(TestSlot, ConfigWebhook)
       \/ \E r \in TestResponses : TestWebhookResponded(TestSlot, r)
    /\ UNCHANGED <<previous, queries>>

SpecAgree == InitRetry /\ [][NextAgree]_vars

\* ================================================================ claims
InDelivery == {"probe", "webhook", "service", "fallback", "backoff"}
InRetry == {"webhook", "service", "fallback", "backoff", "returned", "thrown"}
Failures == {"failed", "offline", "loadfail"}
PresenceBadge(isInMeeting) == IF isInMeeting THEN BadgeOn ELSE BadgeOff

RECURSIVE Sum(_)
Sum(s) == IF s = <<>> THEN 0 ELSE Head(s) + Sum(Tail(s))

\* C1 -- Transition detection: an invocation whose config load yields a valid
\* Config calls setEntityState (issues the probe) exactly when the presence it
\* observed differs from the value wasInMeeting had at the comparison, null
\* differing from both booleans; it calls it at most once.
C1_TransitionDetection ==
    \A h \in Handlers :
        LET f == frame[h] IN
        f.caller = "reconciler" =>
            /\ f.probes <= 1
            /\ f.pc \in InDelivery =>
                   f.probes = 1 /\ f.prev \in {"null", "true", "false"}
                                /\ f.prev # B(f.isInMeeting)
            /\ (f.pc = "done" /\ f.result \notin {"invalid", "loadfail"}) =>
                   (f.probes = 1 <=> f.prev # B(f.isInMeeting))

C1_Witness ==
    /\ frame[1].pc = "done" /\ frame[1].result = "delivered"
    /\ frame[1].prev = "true" /\ ~frame[1].isInMeeting
    /\ previous.pc = "done" /\ previous.probes = 1

\* C2 -- Idempotence: of two consecutive invocations that observe the same
\* presence the second one short-circuits (no probe, no request), so the two
\* together call setEntityState at most once, and exactly once when the first
\* one was a delivered or failed transition.
C2_Idempotence ==
    LET f == frame[1] IN
    (f.pc = "done" /\ previous.pc = "done" /\ previous.isInMeeting = f.isInMeeting) =>
        /\ f.result = "nochange" /\ f.probes = 0 /\ f.sent = 0
        /\ previous.probes + f.probes <= 1
        /\ previous.result \in {"delivered", "failed", "offline"} =>
               previous.probes + f.probes = 1

C2_Witness ==
    /\ frame[1].pc = "done" /\ frame[1].result = "nochange"
    /\ previous.pc = "done" /\ previous.result = "delivered"
    /\ previous.isInMeeting = frame[1].isInMeeting
    /\ previous.probes + frame[1].probes = 1

\* C3 -- Config gating: an invocation that loaded a Config failing
\* validateConfig finishes without probe and without any request, and every
\* invocation that issued a probe had validated its Config first.
C3_ConfigGating ==
    \A h \in Handlers :
        LET f == frame[h] IN
        f.caller = "reconciler" =>
            /\ (f.validation # NoValidation /\ ~validateConfig(f.config).isValid) =>
                   /\ f.pc = "done" /\ f.result = "invalid"
                   /\ f.probes = 0 /\ f.sent = 0 /\ f.calls = <<>>
            /\ f.probes > 0 => f.validation # NoValidation

C3_Witness ==
    /\ frame[1].pc = "done" /\ frame[1].result = "invalid"
    /\ frame[1].config = ConfigBadHost
    /\ frame[1].prev # B(frame[1].isInMeeting)
    /\ frame[1].probes = 0 /\ frame[1].sent = 0

\* C4 -- Retry bound: retryWithBackoff invokes fn at most maxRetries + 1 times
\* and waits baseDelay * 2^i after the i-th failed attempt; with (3, 1000) the
\* final failure comes after 4 invocations and waits of 1000, 2000, 4000 ms.
C4_RetryBound ==
    \A h \in Handlers :
        LET f == frame[h] IN
        f.pc \in InRetry =>
            /\ f.invocations <= f.maxRetries + 1
            /\ Len(f.waits) <= f.maxRetries
            /\ \A i \in 1..Len(f.waits) : f.waits[i] = f.baseDelay * 2^(i - 1)
            /\ f.pc \in {"webhook", "service", "fallback"} =>
                   f.invocations = f.attempt + 1 /\ Len(f.waits) = f.attempt
            /\ f.pc = "backoff" =>
                   f.invocations = f.attempt + 1 /\ Len(f.waits) = f.attempt + 1
            /\ f.pc = "thrown" =>
                   f.invocations = f.maxRetries + 1 /\ Len(f.waits) = f.maxRetries
            /\ (f.pc = "thrown" /\ f.maxRetries = 3 /\ f.baseDelay = 1000) =>
                   f.invocations = 4 /\ f.waits = <<1000, 2000, 4000>> /\ Sum(f.waits) = 7000

C4_Witness ==
    /\ frame[1].pc = "thrown" /\ frame[1].maxRetries = 3 /\ frame[1].baseDelay = 1000
    /\ frame[1].invocations = 4 /\ Sum(frame[1].waits) = 7000

ApiCall(f) == f.pc \in InRetry /\ f.config.method = "api"
CallFailed(f) == f.pc \in {"backoff", "thrown"}
NonSuccess(r) == r.kind = "http" /\ ~Ok(r)

\* the part of C5 that holds as stated: the state-set request is issued
\* exactly after a non-success service response, and never otherwise
FallbackOrder(f) ==
    LET c == f.calls
        r == f.replies
    IN /\ Len(c) \in {1, 2} /\ c[1] = Req("service", f.isInMeeting)
       /\ Len(c) = 2 => c[2] = Req("state", f.isInMeeting)
       /\ Len(c) = 2 <=> (Len(r) >= 1 /\ NonSuccess(r[1]))
       /\ f.pc = "service" => r = <<>>
       /\ f.pc = "fallback" => Len(r) = 1
       /\ (CallFailed(f) \/ f.pc = "returned") => Len(r) = Len(c)
       /\ f.pc = "returned" => Ok(r[Len(r)])

\* C5 (as stated) -- the call fails only when both responses are non-success.
C5_Original ==
    \A h \in Handlers :
        LET f == frame[h] IN
        ApiCall(f) =>
            /\ FallbackOrder(f)
            /\ CallFailed(f) =>
                   Len(f.replies) = 2 /\ NonSuccess(f.replies[1]) /\ NonSuccess(f.replies[2])

\* C5 (amended) -- Fallback: within one call of setEntityStateAPI the state-set
\* request is issued if and only if the service call returned a non-success
\* status, after it and before the call reports failure; the call fails only
\* when the service request raised an exception, or the service response was
\* non-success and the state-set request raised or returned non-success.
C5_Fallback ==
    \A h \in Handlers :
        LET f == frame[h] IN
        ApiCall(f) =>
            /\ FallbackOrder(f)
            /\ CallFailed(f) =>
                   \/ Len(f.replies) = 1 /\ f.replies[1].kind = "network"
                   \/ /\ Len(f.replies) = 2 /\ NonSuccess(f.replies[1])
                      /\ ~Ok(f.replies[2])

C5_Witness ==
    /\ frame[1].pc = "backoff" /\ frame[1].config.method = "api"
    /\ frame[1].calls = <<Req("service", TRUE), Req("state", TRUE)>>
    /\ frame[1].replies = <<Http(404), Http(500)>>

\* C6 -- Connectivity gating: when the probe does not end with a success
\* status, setEntityState fails at once: no request is sent, fn is never
\* invoked and no backoff wait is started.
C6_ConnectivityGating ==
    \A h \in Handlers :
        LET f == frame[h] IN
        (f.probeReply # NoReply /\ ~Ok(f.probeReply)) =>
            /\ f.pc = "done" /\ f.result = "offline"
            /\ f.probes = 1 /\ f.sent = 0 /\ f.invocations = 0
            /\ f.calls = <<>> /\ f.waits = <<>>

C6_Witness ==
    /\ frame[1].pc = "done" /\ frame[1].result = "offline"
    /\ frame[1].probeReply = Aborted /\ frame[1].sent = 0

\* C7 -- Failure semantics: a failed delivery leaves wasInMeeting at the
\* presence it was sent for, and the next invocation observing that same
\* presence starts no delivery.
C7_NoRedrive ==
    LET f == frame[1] IN
    /\ (f.pc = "done" /\ f.result \in Failures) => wasInMeeting = B(f.isInMeeting)
    /\ (/\ previous.pc = "done" /\ previous.result \in Failures
        /\ f.pc \notin {"idle", "query", "queried", "rejected"}
        /\ f.isInMeeting = previous.isInMeeting) =>
           /\ f.pc = "done" /\ f.result = "nochange"
           /\ f.probes = 0 /\ f.sent = 0
           /\ wasInMeeting = B(previous.isInMeeting)

C7_NoRevert ==
    \A h \in Handlers :
        (frame[h].pc # "done" /\ frame'[h].pc = "done" /\ frame'[h].result \in Failures) =>
            wasInMeeting' = wasInMeeting /\ wasInMeeting' = B(frame'[h].isInMeeting)

C7_FailureSemantics == []C7_NoRedrive /\ [][C7_NoRevert]_vars

C7_Witness ==
    /\ previous.pc = "done" /\ previous.result = "failed"
    /\ frame[1].pc = "done" /\ frame[1].result = "nochange"
    /\ frame[1].isInMeeting = previous.isInMeeting
    /\ wasInMeeting = B(previous.isInMeeting)

\* C8 -- Error containment: no rejected promise escapes a top-level event
\* handler, whichever collaborator fails.
C8_ErrorContainment ==
    \A h \in Handlers : frame[h].pc # "rejected"

\* C9 -- Indicator outcome of a transition: when the handler has finished, the
\* badge is the error badge exactly when the config load raised or the config
\* was valid and the delivery failed; after a successful delivery or an
\* invalid config it is the presence badge set at the start.
C9_IndicatorOutcome ==
    LET f == frame[1] IN
    (f.pc = "done" /\ f.result # "nochange") =>
        /\ badge = BadgeError <=> f.result \in Failures
        /\ f.result \in {"delivered", "invalid"} => badge = PresenceBadge(f.isInMeeting)
        /\ f.result \in {"failed", "offline", "delivered"} => validateConfig(f.config).isValid
        /\ f.result = "invalid" => ~validateConfig(f.config).isValid
        /\ f.result = "loadfail" => f.validation = NoValidation /\ f.probes = 0

C9_Witness ==
    /\ frame[1].pc = "done" /\ frame[1].result = "failed"
    /\ frame[1].sent = 4 /\ badge = BadgeError

\* C10 -- Unconfigured skip: with host, token and webhook_url all empty the
\* validation is invalid with the single configure-first error; the transition
\* updates wasInMeeting and the presence badge, sends nothing and never shows
\* the error badge.
C10_UnconfiguredSkip ==
    \A h \in Handlers :
        LET f == frame[h] IN
        (/\ f.caller = "reconciler" /\ f.validation # NoValidation
         /\ f.config.host = <<>> /\ f.config.token = <<>> /\ f.config.webhook_url = <<>>) =>
            /\ f.validation = [isValid |-> FALSE, errors |-> <<ErrConfigureFirst>>]
            /\ f.pc = "done" /\ f.result = "invalid"
            /\ f.probes = 0 /\ f.sent = 0
            /\ f.prev # B(f.isInMeeting)
            /\ wasInMeeting = B(f.isInMeeting)
            /\ badge = PresenceBadge(f.isInMeeting)

C10_Witness ==
    /\ frame[1].pc = "done" /\ frame[1].config = defaultConfig
    /\ frame[1].validation.errors = <<ErrConfigureFirst>>
    /\ frame[1].isInMeeting /\ wasInMeeting = "true" /\ badge = BadgeOn

\* the step in which invocation h resumes from its tab query and compares
Compared(h) == frame[h].pc = "queried" /\ frame'[h].pc # "queried"

\* C11 (state part) -- wasInMeeting is null until an invocation has completed
\* its tab query and compared, and no longer after the first one did; the invocation that compared against
\* null is never ended as "no change", and with a valid webhook Config and no
\* matching tab the request it issues after the probe is a webhook POST "off".
C11_FirstIsChange ==
    /\ wasInMeeting = "null" =>
           \A h \in Handlers : frame[h].pc \in {"idle", "query", "queried", "rejected"}
    /\ previous.pc = "idle" =>
           (wasInMeeting = "null" <=> frame[1].pc \in {"idle", "query", "queried", "rejected"})
    /\ \A h \in Handlers :
           LET f == frame[h] IN
           (f.caller = "reconciler" /\ f.prev = "null") =>
               /\ f.result # "nochange"
               /\ wasInMeeting = B(f.isInMeeting)
               /\ validateConfig(f.config).isValid =>
                      (f.pc \in InDelivery \/ f.result \in {"delivered", "failed", "offline"})
               /\ (f.config = ConfigWebhook /\ ~f.isInMeeting /\ f.pc \in {"webhook", "backoff"}) =>
                      f.calls = <<[kind |-> "webhook", value |-> "off"]>>

\* C11 (step part) -- the comparison against null assigns the observed
\* presence and sets the matching presence badge: idle when no tab matches.
C11_FirstStep ==
    \A h \in Handlers :
        (Compared(h) /\ wasInMeeting = "null") =>
            /\ frame'[h].pc = "loadConfig" /\ frame'[h].prev = "null"
            /\ wasInMeeting' = B(frame[h].isInMeeting)
            /\ badge' = IF frame[h].isInMeeting THEN BadgeOn ELSE BadgeOff

\* C11 -- First observation: wasInMeeting is null at process start and the
\* first invocation that completes its tab query is always treated as a
\* change; with no matching tab and a valid webhook Config it sets
\* wasInMeeting = false, the idle badge, and attempts a webhook POST "off".
C11_FirstObservation == []C11_FirstIsChange /\ [][C11_FirstStep]_vars

C11_Witness ==
    /\ frame[1].pc = "webhook" /\ frame[1].prev = "null" /\ ~frame[1].isInMeeting
    /\ frame[1].config = ConfigWebhook /\ previous.pc = "idle"
    /\ frame[1].calls = <<[kind |-> "webhook", value |-> "off"]>>
    /\ wasInMeeting = "false" /\ badge = BadgeOff

\* the requests the delivery strategy of method may issue in one call, in order
StrategyKinds(method) == IF method = "webhook" THEN <<"webhook">> ELSE <<"service", "state">>

\* C12 (state part) -- every request of the current attempt, first attempt
\* or retry, is of the strategy's kind and carries "on" when the invocation
\* observed presence and "off" when it did not, whatever wasInMeeting is now.
C12_RequestsCarryObserved ==
    \A h \in Handlers :
        LET f == frame[h] IN
        (f.caller = "reconciler" /\ f.pc \in InRetry) =>
            /\ Len(f.calls) \in 1..Len(StrategyKinds(f.config.method))
            /\ \A i \in 1..Len(f.calls) :
                   /\ f.calls[i].kind = StrategyKinds(f.config.method)[i]
                   /\ f.calls[i].value = IF f.isInMeeting THEN "on" ELSE "off"

\* C12 (step part) -- a request that succeeds leaves at the target the
\* presence its invocation observed.
C12_DeliversObserved ==
    \A h \in Handlers :
        (frame[h].pc \in {"webhook", "service", "fallback"} /\ frame'[h].result = "delivered") =>
            target' = IF frame[h].isInMeeting THEN "on" ELSE "off"

\* C12 -- Delivered value: every request issued for a transition (service
\* call, fallback state-set, webhook POST and every retry of them) carries the
\* presence observed by the invocation that started it, regardless of later
\* changes of wasInMeeting while the delivery is in flight.
C12_DeliveredValue == []C12_RequestsCarryObserved /\ [][C12_DeliversObserved]_vars

C12_Witness ==
    \E h \in Handlers :
        /\ frame[h].pc = "fallback" /\ frame[h].attempt = 2 /\ frame[h].isInMeeting
        /\ frame[h].calls = <<[kind |-> "service", value |-> "on"],
                              [kind |-> "state", value |-> "on"]>>
        /\ wasInMeeting = "false"

\* ---- the validator's rules, stated on the characters of the fields
Unset(s) == s = <<>> \/ s = <<"undefined">>
\* the characters a trim removes: the space separators, the control characters
\* TAB, VT and FF, the byte order mark, and the four line terminators
SpaceSeparators ==
    {" ", " ", " ", "U+2000", "U+2001", "U+2002", "U+2003", "U+2004",
     "U+2005", "U+2006", "U+2007", "U+2008", "U+2009", "U+200A", "U+202F",
     "U+205F", "U+3000"}
Trimmed(ch) ==
    \/ ch \in SpaceSeparators
    \/ ch \in {"\t", "", "\f", "﻿"}
    \/ ch \in {"\n", "\r", "U+2028", "U+2029"}
Blank(s) == Unset(s) \/ \A i \in 1..Len(s) : Trimmed(s[i])
HasPrefix(s, p) == Len(s) >= Len(p) /\ \A i \in 1..Len(p) : s[i] = p[i]
HasScheme(s) == HasPrefix(s, <<"h", "t", "t", "p", ":", "/", "/">>)
                \/ HasPrefix(s, <<"h", "t", "t", "p", "s", ":", "/", "/">>)
FirstRun(c) == Unset(c.host) /\ Unset(c.token) /\ Unset(c.webhook_url)
Reports(v, e) == \E i \in 1..Len(v.errors) : v.errors[i] = e
Validated(f) == f.caller = "validate" /\ f.pc = "returned"

\* C13 -- Validator first-run rule: validateConfig returns the configure-first
\* error if and only if host, token and webhook_url are all empty or unset,
\* whatever method and entity_id are; the error list is then exactly that one
\* error.
C13_FirstRunRule ==
    \A h \in Handlers :
        LET f == frame[h] IN
        Validated(f) =>
            /\ Reports(f.validation, ErrConfigureFirst) <=> FirstRun(f.config)
            /\ FirstRun(f.config) =>
                   f.validation = [isValid |-> FALSE, errors |-> <<ErrConfigureFirst>>]

C13_Witness ==
    /\ Validated(frame[1])
    /\ frame[1].config = Cfg(Undefined, StrEmpty, StrBlank, "webhook", StrEmpty)
    /\ frame[1].validation.errors = <<ErrConfigureFirst>>

HostRequired(c) == Blank(c.host)
HostSchemeWrong(c) == ~Blank(c.host) /\ ~HasScheme(c.host)
EntityRequired(c) == Blank(c.entity_id)
TokenRequired(c) == Blank(c.token) \/ c.token = <<"x", "x", "x", "x", "x", "x", "x">>
Count(b) == IF b THEN 1 ELSE 0

\* C14 -- Validator API rule: for a Config that is not first-run and has
\* method api, validateConfig reports exactly one error per violated rule and
\* nothing else (0 to 3 errors): host blank or, otherwise, without the http://
\* or https:// prefix; entity_id blank; token blank or the placeholder
\* "xxxxxxx"; the result is valid exactly when no rule is violated.
C14_ApiRule ==
    \A h \in Handlers :
        LET f == frame[h]
            c == f.config
            v == f.validation
        IN (Validated(f) /\ ~FirstRun(c) /\ c.method = "api") =>
               /\ Reports(v, ErrHostRequired) <=> HostRequired(c)
               /\ Reports(v, ErrHostScheme) <=> HostSchemeWrong(c)
               /\ ~(Reports(v, ErrHostRequired) /\ Reports(v, ErrHostScheme))
               /\ Reports(v, ErrEntityRequired) <=> EntityRequired(c)
               /\ Reports(v, ErrTokenRequired) <=> TokenRequired(c)
               /\ ~Reports(v, ErrWebhookRequired) /\ ~Reports(v, ErrConfigureFirst)
               /\ Len(v.errors) = Count(HostRequired(c) \/ HostSchemeWrong(c))
                                  + Count(EntityRequired(c)) + Count(TokenRequired(c))
               /\ Len(v.errors) \in 0..3
               /\ v.isValid <=> ~(HostRequired(c) \/ HostSchemeWrong(c)
                                  \/ EntityRequired(c) \/ TokenRequired(c))

C14_Witness ==
    /\ Validated(frame[1])
    /\ frame[1].config = Cfg(StrHostPadded, Placeholder, StrBlankFeed, "api", Undefined)
    /\ frame[1].validation.errors = <<ErrHostScheme, ErrEntityRequired, ErrTokenRequired>>

\* C15 -- Validator webhook rule: for a Config that is not first-run and has
\* method webhook, validateConfig is valid if and only if webhook_url is not
\* blank; the only error it can report is the webhook one, whatever host,
\* token and entity_id are.
C15_WebhookRule ==
    \A h \in Handlers :
        LET f == frame[h]
            c == f.config
            v == f.validation
        IN (Validated(f) /\ ~FirstRun(c) /\ c.method = "webhook") =>
               /\ v.isValid <=> ~Blank(c.webhook_url)
               /\ v.errors = IF Blank(c.webhook_url) THEN <<ErrWebhookRequired>> ELSE <<>>

C15_Witness ==
    /\ Validated(frame[1])
    /\ frame[1].config = Cfg(StrHostBare, Placeholder, Undefined, "webhook", StrBlankFeed)
    /\ frame[1].validation = [isValid |-> FALSE, errors |-> <<ErrWebhookRequired>>]

Tested(f) == f.caller = "test" /\ f.pc = "returned"
WithStatus(key, status) ==
    [success |-> FALSE, key |-> key, detail |-> [kind |-> "http", status |-> status]]

\* C16 -- Connection test, API: the test sends a GET for the entity state and
\* maps its status: 200 gives success; 401 failure (invalid token); 404
\* failure (entity not found); every other status failure with the status
\* code in the message; success is true only for status 200.
C16_TestApiMapping ==
    \A h \in Handlers :
        LET f == frame[h]
            r == f.replies[1]
            o == f.outcome
        IN (Tested(f) /\ f.config.method # "webhook") =>
               /\ f.calls = <<[kind |-> "get", value |-> "none"]>>
               /\ o.success <=> (r.kind = "http" /\ r.status = 200)
               /\ r.kind = "http" =>
                      /\ r.status = 200 => o.key = "test.apiValid"
                      /\ r.status = 401 => o = [o EXCEPT !.success = FALSE, !.key = "test.invalidToken"]
                      /\ r.status = 404 => o = [o EXCEPT !.success = FALSE, !.key = "test.entityNotFound"]
                      /\ r.status \notin {200, 401, 404} =>
                             o = WithStatus("test.unexpectedError", r.status)

C16_Witness ==
    /\ Tested(frame[TestSlot]) /\ frame[TestSlot].config = ConfigApi
    /\ frame[TestSlot].replies = <<Http(204)>>
    /\ frame[TestSlot].outcome = WithStatus("test.unexpectedError", 204)

\* C17 -- Connection test, webhook: the test POSTs value "on" and reports
\* success if and only if the response status is exactly 200; any other status
\* gives failure with the status code in the message.
C17_TestWebhookMapping ==
    \A h \in Handlers :
        LET f == frame[h]
            r == f.replies[1]
            o == f.outcome
        IN (Tested(f) /\ f.config.method = "webhook") =>
               /\ f.calls = <<[kind |-> "webhook", value |-> "on"]>>
               /\ o.success <=> (r.kind = "http" /\ r.status = 200)
               /\ o.success => o.key = "test.webhookValid"
               /\ (r.kind = "http" /\ r.status # 200) =>
                      o = WithStatus("test.webhookFailed", r.status)

C17_Witness ==
    /\ Tested(frame[TestSlot]) /\ frame[TestSlot].config = ConfigWebhook
    /\ frame[TestSlot].replies = <<Http(204)>>
    /\ frame[TestSlot].outcome = WithStatus("test.webhookFailed", 204)
    /\ target = "on"

\* C18 (state part) -- a connection test sends exactly one request, no probe,
\* no retry and no wait, never ends by throwing, and has a {success, message}
\* result for every outcome, a network exception included.
C18_OneRequestNoThrow ==
    \A h \in Handlers :
        LET f == frame[h] IN
        f.caller = "test" =>
            /\ f.pc \in {"testApi", "testWebhook", "returned"}
            /\ f.sent = 1 /\ Len(f.calls) = 1
            /\ f.probes = 0 /\ f.probeReply = NoReply
            /\ f.invocations = 0 /\ f.attempt = 0 /\ f.waits = <<>>
            /\ f.pc = "returned" =>
                   /\ Len(f.replies) = 1
                   /\ f.outcome.success \in BOOLEAN /\ f.outcome.key # "none"
                   /\ f.replies[1].kind # "http" =>
                          ~f.outcome.success /\ f.outcome.detail = f.replies[1]

\* C18 (step part) -- no step of a connection test changes wasInMeeting or
\* the badge.
C18_TestFrame ==
    \A h \in Handlers :
        (frame[h].caller = "test" \/ frame'[h].caller = "test") /\ frame'[h] # frame[h] =>
            wasInMeeting' = wasInMeeting /\ badge' = badge

\* C18 -- Connection test is a single attempt that never throws: exactly one
\* HTTP request, no connectivity probe, no retry, wasInMeeting and the
\* indicator untouched, and a structured result for every outcome.
C18_SingleAttempt == []C18_OneRequestNoThrow /\ [][C18_TestFrame]_vars

C18_Witness ==
    /\ Tested(frame[TestSlot]) /\ frame[TestSlot].replies = <<NetworkError>>
    /\ ~frame[TestSlot].outcome.success /\ frame[TestSlot].outcome.detail = NetworkError
    /\ frame[TestSlot].sent = 1
    /\ wasInMeeting = "true" /\ badge = BadgeOn /\ frame[1].pc = "backoff"

\* two invocations are suspended after their tab query with the same
\* observation, which differs from wasInMeeting: both are about to compare
\* against the same value
SameStale(h, g) ==
    /\ h # g /\ frame[h].pc = "queried" /\ frame[g].pc = "queried"
    /\ frame[h].isInMeeting = frame[g].isInMeeting
    /\ wasInMeeting # B(frame[h].isInMeeting)

Passed(f) == f.caller = "reconciler" /\ f.prev # "unset" /\ f.result # "nochange"

C19_BothPass ==
    \A h, g \in Handlers :
        (SameStale(h, g) /\ Compared(h)) =>
            /\ frame'[h].pc = "loadConfig"
            /\ wasInMeeting' # B(frame'[g].isInMeeting)

\* C19 (as stated) -- Re-entrancy race: of two overlapping invocations that
\* observed the same presence and face the same stale wasInMeeting, the one
\* that resumes first passes the comparison and leaves the other one to pass
\* it against that same value, so that both call setEntityState.
C19_Original == [][C19_BothPass]_vars

\* every comparison is a compare-and-set: the invocation passes exactly when
\* its observation differs from wasInMeeting and then assigns it in the same
\* step; an invocation that faced the same value with the same observation
\* is left with nothing to pass
C19_OnePasses ==
    \A h \in Handlers :
        Compared(h) =>
            /\ frame'[h].pc = "loadConfig" <=> wasInMeeting # B(frame[h].isInMeeting)
            /\ frame'[h].pc # "loadConfig" =>
                   /\ frame'[h].pc = "done" /\ frame'[h].result = "nochange"
                   /\ frame'[h].probes = 0 /\ wasInMeeting' = wasInMeeting
            /\ frame'[h].pc = "loadConfig" =>
                   /\ frame'[h].prev = wasInMeeting
                   /\ wasInMeeting' = B(frame[h].isInMeeting)
                   /\ wasInMeeting' # frame'[h].prev
            /\ \A g \in Handlers :
                   SameStale(h, g) =>
                       /\ frame'[g] = frame[g]
                       /\ wasInMeeting' = B(frame'[g].isInMeeting)

\* the value an invocation compared against is gone once it has passed: the
\* invocation that passed last holds the presence now cached
C19_LatestWrote ==
    /\ \A h \in Handlers :
           frame[h].latest =>
               /\ Passed(frame[h])
               /\ wasInMeeting = B(frame[h].isInMeeting)
               /\ frame[h].prev # wasInMeeting
    /\ \A h, g \in Handlers : (frame[h].latest /\ frame[g].latest) => h = g

\* C19 (amended) -- No re-entrancy race on the comparison: comparison and
\* assignment of wasInMeeting are one step, so two overlapping invocations
\* never pass the comparison against the same value; of two that observed the
\* same presence under the same stale wasInMeeting only the first to resume
\* calls setEntityState, the other ends without probe or request.
C19_CompareAndSet == []C19_LatestWrote /\ [][C19_OnePasses]_vars

C19_Witness ==
    /\ frame[1].pc \in InDelivery /\ frame[1].prev = "null" /\ frame[1].latest
    /\ frame[2].pc = "done" /\ frame[2].result = "nochange" /\ frame[2].probes = 0
    /\ frame[2].isInMeeting = frame[1].isInMeeting
    /\ frame[2].prev = B(frame[1].isInMeeting)

AllFinished == \A h \in Handlers : frame[h].pc \in Terminal

\* C20 -- Indicator ordering: once every in-flight reconciliation has
\* finished, the badge shows the presence equal to wasInMeeting, or the error
\* badge caused by the delivery of that latest transition; the failure of an
\* earlier transition never replaces the badge of a later one.
C20_IndicatorOrdering ==
    \A h \in Handlers :
        (/\ AllFinished /\ frame[h].latest
         /\ \A g \in Handlers : frame[g].result \notin {"loadfail", "rejected"}) =>
            IF frame[h].result \in Failures
            THEN badge = BadgeError
            ELSE badge = PresenceBadge(wasInMeeting = "true")

\* the step in which an event listener calls updateMeetingStateIfNeeded
Started(h) ==
    frame[h].pc # "query" /\ frame'[h].pc = "query" /\ frame'[h].caller = "reconciler"

\* C21 (step part) -- a reconciliation is started only by onInstalled,
\* onRemoved or an onUpdated event with status "complete", and starting it
\* changes neither wasInMeeting nor the badge; a step in which the tabs change
\* and no reconciliation starts (an update with another status) leaves every
\* invocation, wasInMeeting and the badge as they were.
C21_StartedByEvent ==
    /\ \A h \in Handlers :
           Started(h) =>
               /\ frame'[h].trigger \in {[name |-> "onInstalled", status |-> "none"],
                                         [name |-> "onRemoved", status |-> "none"],
                                         [name |-> "onUpdated", status |-> "complete"]}
               /\ wasInMeeting' = wasInMeeting /\ badge' = badge
    /\ (tabs' # tabs /\ \A h \in Handlers : ~Started(h)) =>
           frame' = frame /\ wasInMeeting' = wasInMeeting /\ badge' = badge

\* C21 (state part) -- every pending call was made by one of the three
\* listeners, the onUpdated one only for status "complete".
C21_PendingCall ==
    \A h \in Handlers :
        (frame[h].pc = "query") =>
            /\ frame[h].trigger.name \in {"onInstalled", "onRemoved", "onUpdated"}
            /\ frame[h].trigger.name = "onUpdated" <=> frame[h].trigger.status = "complete"

\* C21 -- Triggers: reconciliation runs on the installed event, on every
\* tab-removed event and on a tab-updated event only when its status is
\* "complete"; an update with any other status starts no reconciliation and
\* leaves wasInMeeting and the indicator unchanged.
C21_Triggers == []C21_PendingCall /\ [][C21_StartedByEvent]_vars

C21_Witness ==
    /\ frame[1].pc = "done" /\ ~frame[1].isInMeeting /\ frame[1].result = "delivered"
    /\ tabs > 0 /\ wasInMeeting = "false" /\ badge = BadgeOff

\* the step in which the tab query of invocation h is answered
Answered(h) == frame[h].pc = "query" /\ frame'[h].pc = "queried"

\* C22 (step part) -- the presence an invocation observes is true exactly
\* when at least one matching tab is open when its query is answered; an
\* invocation that observes presence while wasInMeeting is already true (a
\* further tab opened, or one of several closed) changes nothing and ends
\* without config load, probe or request.
C22_CountToPresence ==
    \A h \in Handlers :
        /\ Answered(h) => (frame'[h].isInMeeting <=> tabs >= 1)
        /\ (Compared(h) /\ frame[h].isInMeeting /\ wasInMeeting = "true") =>
               /\ wasInMeeting' = wasInMeeting /\ badge' = badge /\ target' = target
               /\ frame'[h].pc = "done" /\ frame'[h].result = "nochange"
               /\ frame'[h].probes = 0 /\ frame'[h].sent = 0

\* C22 (state part) -- a request for leaving ("off") comes only from an
\* invocation that found no matching tab, and one that found a tab never
\* sends it.
C22_LeavingOnlyAtZero ==
    \A h \in Handlers :
        LET f == frame[h] IN
        (f.caller = "reconciler" /\ f.calls # <<>>) =>
            \A i \in 1..Len(f.calls) : (f.calls[i].value = "off" <=> ~f.isInMeeting)

\* C22 -- Any matching tab counts: presence is true exactly when at least one
\* open tab matches; a second matching tab, or closing one of several, changes
\* neither wasInMeeting nor the indicator and starts no delivery; the delivery
\* for leaving happens only when the count of matching tabs is zero.
C22_AnyTabCounts == []C22_LeavingOnlyAtZero /\ [][C22_CountToPresence]_vars

C22_Witness ==
    /\ tabs = 2 /\ frame[1].pc = "done" /\ frame[1].result = "nochange"
    /\ frame[1].isInMeeting /\ frame[1].probes = 0
    /\ previous.pc = "done" /\ previous.result = "delivered" /\ previous.isInMeeting
    /\ wasInMeeting = "true" /\ badge = BadgeOn /\ target = "on"

Sending == {"webhook", "service", "fallback"}
LastReply(f) == f.replies[Len(f.replies)]

\* C23 (state part) -- a call of retryWithBackoff that returned did so on an
\* invocation that succeeded, after exactly one wait per earlier failure; a
\* call that threw made maxRetries + 1 invocations and maxRetries waits and
\* threw the error of its last invocation.
C23_Outcome ==
    \A h \in Handlers :
        LET f == frame[h] IN
        f.caller = "direct" =>
            /\ f.pc = "returned" =>
                   /\ Len(f.replies) >= 1 /\ LastReply(f).kind = "http"
                   /\ LastReply(f).status \in 200..299
                   /\ f.invocations = f.attempt + 1 /\ Len(f.waits) = f.attempt
                   /\ f.attempt <= f.maxRetries
            /\ f.pc = "thrown" =>
                   /\ f.invocations = f.maxRetries + 1 /\ Len(f.waits) = f.maxRetries
                   /\ f.attempt = f.maxRetries
                   /\ f.lastError = LastReply(f)
                   /\ ~(f.lastError.kind = "http" /\ f.lastError.status \in 200..299)

\* C23 (step part) -- success and the final failure end the call in the step
\* of the response: no further invocation and no wait follow; a call that has
\* ended changes no more.
C23_EndsAtOnce ==
    \A h \in Handlers :
        /\ (frame[h].pc \in Sending /\ frame'[h].pc \in {"returned", "thrown"}) =>
               /\ frame'[h].waits = frame[h].waits
               /\ frame'[h].invocations = frame[h].invocations
               /\ frame'[h].sent = frame[h].sent
        /\ (frame[h].pc \in Sending /\ frame'[h].pc = "thrown") =>
               frame'[h].lastError = LastReply(frame'[h])
        /\ (frame[h].pc \in {"returned", "thrown"} /\ frame'[h] # frame[h]) =>
               frame'[h].attempt = 0 /\ frame'[h].invocations = 1 /\ frame'[h].waits = <<>>
        /\ frame'[h].pc = "thrown" => frame[h].pc \in Sending \cup {"thrown"}

\* C23 -- Retry outcome: retryWithBackoff stops at the first successful
\* invocation and returns without further invocations or waits; when all
\* maxRetries + 1 invocations fail it rethrows the error of the last one at
\* once, with no wait after the final failure.
C23_RetryOutcome == []C23_Outcome /\ [][C23_EndsAtOnce]_vars

C23_Witness ==
    /\ frame[1].pc = "thrown" /\ frame[1].maxRetries = 2
    /\ frame[1].config.method = "api" /\ frame[1].invocations = 3
    /\ frame[1].replies = <<Http(500), Http(404)>> /\ frame[1].lastError = Http(404)
    /\ Len(frame[1].waits) = 2

\* position of a step of a transition in the order of the source
Rank(pc) ==
    CASE pc = "queried" -> 1
      [] pc = "loadConfig" -> 2
      [] pc = "probe" -> 3
      [] pc \in {"webhook", "service", "fallback", "backoff"} -> 4
      [] pc = "done" -> 5
      [] OTHER -> 0

\* C24 (state part) -- while the config load, the probe or the delivery of a
\* transition is pending, wasInMeeting and the presence badge already show the
\* new presence; nothing was validated or sent before the config load, and
\* nothing was sent before the probe was answered.
C24_UpdatedFirst ==
    LET f == frame[1] IN
    (f.caller = "reconciler" /\ f.pc \in {"loadConfig"} \cup InDelivery) =>
        /\ wasInMeeting = B(f.isInMeeting)
        /\ badge = PresenceBadge(f.isInMeeting)
        /\ f.pc = "loadConfig" => f.validation = NoValidation /\ f.probes = 0 /\ f.sent = 0
        /\ f.pc = "probe" => f.validation.isValid /\ f.probes = 1 /\ f.sent = 0
        /\ f.pc \in InRetry => f.validation.isValid /\ f.probes = 1 /\ f.sent >= 1

\* C24 (step part) -- an invocation moves forward through: compare (assign
\* wasInMeeting, presence badge), config load, validation, probe, delivery;
\* no step is skipped, and the error badge appears only in the step that ends
\* the invocation with a failure.
C24_StepOrder ==
    \A h \in Handlers :
        LET f == frame[h]
            g == frame'[h]
        IN (f.caller = "reconciler" /\ g # f /\ g.pc # "query") =>
               /\ Rank(g.pc) >= Rank(f.pc)
               /\ g.pc = "loadConfig" =>
                      /\ f.pc = "queried"
                      /\ wasInMeeting' = B(f.isInMeeting) /\ badge' = PresenceBadge(f.isInMeeting)
               /\ g.pc = "probe" => f.pc = "loadConfig"
               /\ (g.pc \in {"webhook", "service"} /\ g.attempt = 0) => f.pc = "probe"
               /\ (g.pc \in {"webhook", "service"} /\ g.attempt > 0) => f.pc = "backoff"
               /\ f.pc # "queried" => wasInMeeting' = wasInMeeting
               /\ badge' # badge =>
                      \/ f.pc = "queried" /\ g.pc = "loadConfig"
                      \/ /\ badge' = BadgeError /\ g.pc = "done" /\ g.result \in Failures
                         /\ f.pc \in {"loadConfig", "probe", "webhook", "service", "fallback"}

\* C24 -- Optimistic ordering: on a detected change wasInMeeting and the
\* presence indicator are updated before the config is loaded and before any
\* network activity; the steps follow in the order: wasInMeeting, presence
\* indicator, config load, validation, probe, retried delivery, error
\* indicator (on failure only).
C24_OptimisticOrdering == []C24_UpdatedFirst /\ [][C24_StepOrder]_vars

C24_Witness ==
    /\ frame[1].pc = "probe" /\ frame[1].isInMeeting /\ frame[1].sent = 0
    /\ wasInMeeting = "true" /\ badge = BadgeOn /\ target # "on"

\* setEntityState was called by the invocation and has returned
SetEntityStateReturned(f) == f.caller = "reconciler" /\ f.pc = "done" /\ f.probes = 1

\* the value setEntityState returned was false
ReturnedFalse(f) == f.result \in {"offline", "failed"}

\* C25 (state part) -- a finished call of setEntityState returned (it did not
\* throw into the handler's catch block); it returned false exactly when the
\* probe failed, or the probe succeeded and the delivery failed; after a
\* failed probe nothing was sent, and a failed delivery sent at least
\* maxRetries + 1 requests.
C25_Returned ==
    LET f == frame[1] IN
    SetEntityStateReturned(f) =>
        /\ f.result \in {"delivered", "offline", "failed"}
        /\ f.result = "offline" <=> ~Ok(f.probeReply)
        /\ f.result = "offline" => f.sent = 0
        /\ f.result = "failed" =>
               /\ f.sent >= DefaultMaxRetries + 1
               /\ f.config.method = "webhook" => f.sent = DefaultMaxRetries + 1
        /\ f.result = "delivered" => f.sent >= 1
        /\ ReturnedFalse(f) <=> f.result # "delivered"

\* C25 (step part) -- a send that ends an attempt without success, by a
\* non-success status or by a network exception, is retried while attempts
\* are left; the call returns false from the delivery only when attempt
\* maxRetries + 1 has failed, and a non-false value only when a request has
\* succeeded; a failed probe ends the call at once.
C25_Retried ==
    \A h \in Handlers :
        LET f == frame[h]
            g == frame'[h]
        IN (f.caller = "reconciler" /\ g # f) =>
               /\ g.pc = "backoff" =>
                      /\ f.pc \in Sending /\ f.attempt < f.maxRetries
                      /\ ~Ok(LastReply(g)) /\ LastReply(g).kind \in {"http", "network"}
                      /\ g.lastError = LastReply(g)
                      /\ target' = target
               /\ (f.pc \in Sending /\ g.pc = "done") =>
                      /\ g.result \in {"delivered", "failed"}
                      /\ g.result = "failed" =>
                             /\ f.attempt = f.maxRetries /\ f.invocations = f.maxRetries + 1
                             /\ Len(f.waits) = f.maxRetries
                             /\ f.maxRetries = DefaultMaxRetries
                             /\ target' = target
                      /\ g.result = "delivered" => target' = OnOff(f.isInMeeting)
               /\ (f.pc \in Sending /\ f.attempt < f.maxRetries) =>
                      \/ g.pc = "backoff"
                      \/ g.pc = "fallback" /\ f.pc = "service"
                      \/ g.pc = "done" /\ g.result = "delivered"
               /\ f.pc = "probe" =>
                      IF Ok(g.probeReply)
                      THEN g.pc \in Sending /\ g.attempt = 0 /\ g.invocations = 1
                      ELSE g.pc = "done" /\ g.result = "offline" /\ g.invocations = 0

\* C25 -- Delivery outcome: setEntityState never throws; it returns false
\* exactly when the connectivity probe fails or all maxRetries + 1 delivery
\* attempts fail, and a non-false value otherwise; HTTP and network errors of
\* the send are retried, a connectivity failure is not.
C25_DeliveryOutcome == []C25_Returned /\ [][C25_Retried]_vars

C25_Witness ==
    /\ SetEntityStateReturned(frame[1]) /\ frame[1].result = "failed"
    /\ frame[1].sent = 4 /\ Ok(frame[1].probeReply)
    /\ badge = BadgeError

\* the HEAD request completed with a success status before the abort
HeadSucceeded(r) == r.kind = "http" /\ r.status \in 200..299

\* C26 (state part) -- once the probe of an invocation is answered, the
\* invocation is in the delivery (the prober returned true) exactly when the
\* HEAD request completed with a success status; otherwise it ended with the
\* outcome of a false probe; it never ended in the handler's catch block.
C26_Boolean ==
    LET f == frame[1] IN
    (f.caller = "reconciler" /\ f.probeReply # NoReply) =>
        /\ f.probeReply.kind \in {"http", "network", "abort"}
        /\ HeadSucceeded(f.probeReply) <=> (f.pc \in InRetry \/ (f.pc = "done" /\ f.result \in {"delivered", "failed"}))
        /\ ~HeadSucceeded(f.probeReply) <=> (f.pc = "done" /\ f.result = "offline")
        /\ f.result # "loadfail" /\ f.pc # "thrown"

\* C26 (step part) -- the answer of the HEAD request decides in one step:
\* true on a success status; false on a non-success status, on a network
\* exception and on the abort after 5 s; nothing else is changed by the probe.
C26_Decides ==
    \A h \in Handlers :
        LET f == frame[h]
            g == frame'[h]
        IN (f.caller = "reconciler" /\ f.pc = "probe" /\ g # f) =>
               /\ g.probeReply # NoReply /\ g.probes = 1
               /\ (g.probeReply.kind = "http" /\ g.probeReply.status \in 200..299) => g.pc \in Sending
               /\ (g.probeReply.kind = "http" /\ g.probeReply.status \notin 200..299) => g.pc = "done"
               /\ g.probeReply.kind \in {"network", "abort"} => g.pc = "done"
               /\ g.pc = "done" => g.result = "offline" /\ badge' = BadgeError
               /\ UNCHANGED <<wasInMeeting, target, tabs, storage>>

\* C26 -- Prober result: checkNetworkConnectivity always returns a boolean and
\* never throws: true exactly when the HEAD request completes with a success
\* status before the 5 s abort, and false on a non-success status, a network
\* exception or a timeout abort.
C26_ProberResult == []C26_Boolean /\ [][C26_Decides]_vars

C26_Witness ==
    /\ frame[1].pc = "done" /\ frame[1].result = "offline"
    /\ frame[1].probeReply = Aborted /\ frame[1].sent = 0
    /\ previous.pc = "done" /\ previous.result = "delivered"

\* the invocations that passed the comparison
Passers == {h \in Handlers : Passed(frame[h])}

\* C27 (state part) -- with the matching tabs unchanged, at most one of the
\* invocations in progress or finished has passed the comparison, at most one
\* has called setEntityState, and wasInMeeting, once set, is the presence.
C27_AtMostOne ==
    /\ Cardinality(Passers) <= 1
    /\ Cardinality({h \in Handlers : frame[h].probes > 0}) <= 1
    /\ \A h \in Handlers : frame[h].probes > 0 => h \in Passers
    /\ wasInMeeting # "null" => wasInMeeting = B(Presence(tabs))

\* C27 (step part) -- the comparison and the assignment are one step of one
\* invocation: the step in which an invocation leaves the comparison is the
\* only step that changes wasInMeeting, no other invocation moves in it, and
\* with the tabs unchanged it passes only from the value null.
C27_OneStep ==
    /\ tabs' = tabs
    /\ \A h \in Handlers :
           Compared(h) =>
               /\ \A g \in Handlers \ {h} : frame'[g].pc = frame[g].pc /\ frame'[g].prev = frame[g].prev
               /\ frame'[h].prev = wasInMeeting
               /\ IF wasInMeeting = B(frame[h].isInMeeting)
                  THEN /\ frame'[h].pc = "done" /\ frame'[h].result = "nochange"
                       /\ wasInMeeting' = wasInMeeting
                  ELSE /\ frame'[h].pc = "loadConfig"
                       /\ wasInMeeting = "null"
                       /\ wasInMeeting' = B(frame[h].isInMeeting)
    /\ wasInMeeting' # wasInMeeting => \E h \in Handlers : Compared(h)

\* C27 -- Atomic compare-and-set: the comparison of the observed presence with
\* wasInMeeting and the assignment to wasInMeeting happen in one uninterrupted
\* step; hence if the set of matching tabs does not change while N invocations
\* overlap (the start-up call and the onInstalled call of the keep-alive
\* variant), at most one of them calls setEntityState.
C27_AtomicCompareAndSet == []C27_AtMostOne /\ [][C27_OneStep]_vars

C27_Witness ==
    /\ frame[1].trigger = NoTrigger /\ frame[1].pc \in Sending /\ frame[1].prev = "null"
    /\ frame[2].pc = "done" /\ frame[2].result = "nochange" /\ frame[2].probes = 0
    /\ frame[2].prev = wasInMeeting /\ frame[2].isInMeeting = frame[1].isInMeeting
    /\ tabs > 0

\* C28 (state part) -- no cancellation: a delivery waiting in its backoff can
\* always go on to its next attempt, whatever wasInMeeting has become.
C28_NoCancellation ==
    \A h \in Handlers :
        (frame[h].caller = "reconciler" /\ frame[h].pc = "backoff") =>
            /\ ENABLED BackoffElapsed(h)
            /\ frame[h].attempt < frame[h].maxRetries

\* C28 (step part) -- the attempt after a backoff sends the presence its own
\* invocation observed, and a request that succeeds leaves that presence at
\* the target without touching wasInMeeting; when wasInMeeting has moved on
\* in the meantime, the target then differs from wasInMeeting.
C28_SucceedsInAnyOrder ==
    \A h \in Handlers :
        LET f == frame[h]
            g == frame'[h]
        IN (f.caller = "reconciler" /\ g # f) =>
               /\ (f.pc = "backoff" /\ g.pc # "backoff") =>
                      /\ g.pc \in Sending /\ g.attempt = f.attempt + 1
                      /\ g.calls[1].value = OnOff(f.isInMeeting)
                      /\ g.latest = f.latest
               /\ (f.pc \in Sending /\ g.pc = "done" /\ g.result = "delivered") =>
                      /\ wasInMeeting' = wasInMeeting
                      /\ wasInMeeting # B(f.isInMeeting) =>
                             /\ ~f.latest
                             /\ target' = OnOff(f.isInMeeting)
                             /\ target' # OnOff(wasInMeeting' = "true")

\* C28 -- Out-of-order delivery under re-entrancy: the order in which delivery
\* requests succeed at the target does not follow the order of the presence
\* transitions: the request of a first transition, still in retry backoff
\* when a second transition is reconciled, can be the last one to succeed, so
\* that after all handlers finish the last value delivered to the target
\* differs from wasInMeeting.
C28_OutOfOrderDelivery == []C28_NoCancellation /\ [][C28_SucceedsInAnyOrder]_vars

C28_Witness ==
    /\ AllFinished /\ storage = ConfigWebhook /\ tabs = 0
    /\ frame[1].result = "delivered" /\ frame[1].isInMeeting /\ frame[1].sent = 2
    /\ ~frame[1].latest
    /\ frame[2].result = "delivered" /\ ~frame[2].isInMeeting /\ frame[2].sent = 1
    /\ frame[2].latest
    /\ wasInMeeting = "false" /\ target = "on"

\* C29 (state part) -- wasInMeeting is null or a boolean; a call of the
\* connection test never compared against it (it holds no value read from it)
\* and is never the invocation that wrote it.
C29_Holder ==
    /\ wasInMeeting \in {"null", "true", "false"}
    /\ \A h \in Handlers :
           frame[h].caller = "test" => frame[h].prev = "unset" /\ ~frame[h].latest
    /\ \A h \in Handlers :
           (frame[h].caller = "reconciler" /\ frame[h].pc \in {"query", "queried"}) =>
               frame[h].prev = "unset"

\* C29 (step part) -- wasInMeeting changes only in the step in which an
\* invocation of updateMeetingStateIfNeeded detects a change, and becomes the
\* presence that invocation observed; it never returns to null; the steps of
\* the config load, validation, probe, delivery, retry and connection test
\* leave it as it is.
C29_WrittenAtChange ==
    /\ wasInMeeting' # wasInMeeting =>
           \E h \in Handlers :
               /\ frame[h].caller = "reconciler" /\ frame[h].pc = "queried"
               /\ frame'[h].pc = "loadConfig"
               /\ wasInMeeting # B(frame[h].isInMeeting)
               /\ wasInMeeting' = B(frame[h].isInMeeting)
               /\ frame'[h].prev = wasInMeeting
    /\ wasInMeeting # "null" => wasInMeeting' # "null"
    /\ \A h \in Handlers :
           (frame'[h] # frame[h] /\ frame[h].pc # "queried") => wasInMeeting' = wasInMeeting
    /\ \A h \in Handlers :
           (frame'[h] # frame[h] /\ (frame[h].caller = "test" \/ frame'[h].caller = "test")) =>
               /\ wasInMeeting' = wasInMeeting /\ badge' = badge
               /\ \A g \in Handlers \ {h} : frame'[g] = frame[g]

\* C29 -- wasInMeeting discipline: wasInMeeting is written only by
\* updateMeetingStateIfNeeded, only at the detected-change step, and only with
\* the presence value just observed; once it holds a boolean it never becomes
\* null again in the same process, and neither delivery, retry, probe,
\* validation nor the connection test reads or writes it.
C29_Discipline == []C29_Holder /\ [][C29_WrittenAtChange]_vars

C29_Witness ==
    /\ wasInMeeting = "false" /\ tabs = 0
    /\ previous.pc = "done" /\ previous.isInMeeting /\ previous.result = "delivered"
    /\ frame[1].pc = "backoff" /\ ~frame[1].isInMeeting /\ frame[1].prev = "true"
    /\ frame[TestSlot].caller = "test" /\ frame[TestSlot].pc = "returned"
    /\ frame[TestSlot].outcome.success

\* the previous invocation observed a transition while the Config was invalid
ConsumedUnderInvalid == previous.pc = "done" /\ previous.result = "invalid"

\* C30 (state part) -- the invocation that observed a transition under an
\* invalid Config sent nothing, and the next invocation that observes the same
\* presence ends at the comparison without probe or request, whether the
\* Config is valid by now or not.
C30_NoLateDelivery ==
    LET f == frame[1] IN
    ConsumedUnderInvalid =>
        /\ previous.probes = 0
        /\ (/\ f.caller = "reconciler" /\ f.pc \notin {"idle", "query", "queried", "rejected"}
            /\ f.isInMeeting = previous.isInMeeting) =>
               /\ f.pc = "done" /\ f.result = "nochange"
               /\ f.probes = 0 /\ f.sent = 0 /\ f.prev = B(f.isInMeeting)
               /\ wasInMeeting = B(f.isInMeeting)

\* C30 (step part) -- wasInMeeting is assigned before the Config is
\* validated: the invocation that ends on an invalid Config leaves wasInMeeting
\* at the presence it observed; saving a Config starts no invocation and
\* leaves wasInMeeting and the target alone; an invocation that observes the
\* presence wasInMeeting holds leaves the target alone, whatever the Config.
C30_Consumed ==
    /\ \A h \in Handlers :
           LET f == frame[h]
               g == frame'[h]
           IN (f.caller = "reconciler" /\ g # f) =>
                  /\ (g.pc = "done" /\ g.result = "invalid") =>
                         /\ f.pc = "loadConfig" /\ ~g.validation.isValid
                         /\ wasInMeeting = B(f.isInMeeting) /\ wasInMeeting' = wasInMeeting
                         /\ g.probes = 0 /\ g.sent = 0 /\ target' = target
                  /\ (f.pc = "queried" /\ wasInMeeting = B(f.isInMeeting)) =>
                         /\ g.pc = "done" /\ g.result = "nochange"
                         /\ target' = target /\ wasInMeeting' = wasInMeeting
    /\ storage' # storage =>
           frame' = frame /\ wasInMeeting' = wasInMeeting /\ target' = target

\* C30 -- A transition observed under an invalid Config is consumed:
\* wasInMeeting is updated before validation, so if a transition happens while
\* the Config is invalid and the Config is afterwards made valid, no delivery
\* of the current presence occurs on later tab events until presence changes
\* again (the target can stay out of date indefinitely).
C30_TransitionConsumed == []C30_NoLateDelivery /\ [][C30_Consumed]_vars

C30_Witness ==
    /\ ConsumedUnderInvalid /\ previous.isInMeeting
    /\ frame[1].pc = "done" /\ frame[1].result = "nochange" /\ frame[1].isInMeeting
    /\ validateConfig(storage).isValid
    /\ tabs > 0 /\ wasInMeeting = "true" /\ target = "unknown"

\* the most requests one call of the delivery strategy of method issues
PerCall(method) == Len(StrategyKinds(method))

\* C31 (state part) -- an invocation issues at most one probe, exactly one
\* once it is in the delivery; it calls the strategy at most maxRetries + 1 = 4
\* times and sends at most 4 requests for method webhook and at most 8 for
\* method api; within one call of the strategy every request is sent once:
\* a service call, then at most one state-set, or one webhook POST.
C31_Bounded ==
    LET f == frame[1] IN
    f.caller = "reconciler" =>
        /\ f.probes \in 0..1
        /\ f.pc \in InDelivery => f.probes = 1
        /\ (f.pc = "done" /\ f.result \in {"delivered", "failed", "offline"}) => f.probes = 1
        /\ f.sent > 0 => f.probes = 1
        /\ f.sent <= (DefaultMaxRetries + 1) * PerCall(f.config.method)
        /\ f.config.method = "webhook" => f.sent <= 4
        /\ f.config.method # "webhook" => f.sent <= 8
        /\ f.pc \in InRetry =>
               /\ f.invocations = f.attempt + 1 /\ f.invocations <= DefaultMaxRetries + 1
               /\ f.sent <= f.invocations * PerCall(f.config.method)
               /\ f.sent >= f.invocations
               /\ Len(f.calls) <= PerCall(f.config.method)
               /\ \A i, j \in 1..Len(f.calls) : f.calls[i].kind = f.calls[j].kind => i = j

\* C31 (step part) -- no step of the delivery issues another probe; a step
\* sends at most one request; the state-set is sent only by the step that
\* receives the answer of the service call of the same attempt, and the
\* answer of a webhook POST or of a state-set sends nothing.
C31_OneAtATime ==
    \A h \in Handlers :
        LET f == frame[h]
            g == frame'[h]
        IN (f.caller = "reconciler" /\ g.caller = "reconciler" /\ g # f /\ g.pc # "query") =>
               /\ f.pc \in InRetry => g.probes = f.probes
               /\ g.sent \in {f.sent, f.sent + 1}
               /\ g.pc = "fallback" => f.pc = "service" /\ g.attempt = f.attempt /\ g.sent = f.sent + 1
               /\ f.pc \in {"webhook", "fallback"} => g.sent = f.sent
               /\ (f.pc = "service" /\ g.pc # "fallback") => g.sent = f.sent
               /\ g.sent = f.sent + 1 => f.pc \in {"probe", "backoff", "service"}

\* C31 -- Request bound per transition: one transition issues exactly one
\* connectivity probe (never repeated between retries) and, with the default
\* retry settings, at most 4 webhook POSTs for method webhook or at most 8
\* target requests for method api (at most 4 service calls, each followed by
\* at most one state-set); a single call of a delivery strategy never repeats
\* a request by itself.
C31_RequestBound == []C31_Bounded /\ [][C31_OneAtATime]_vars

C31_Witness ==
    /\ frame[1].pc = "done" /\ frame[1].result = "failed"
    /\ frame[1].config.method = "api" /\ frame[1].sent = 8 /\ frame[1].probes = 1
    /\ target = "unknown"

\* the invocation is running: it is suspended at one of its awaits
Running(f) == f.caller = "reconciler" /\ f.pc \notin Terminal

\* C32 (bound) -- a delivery is at attempt 0..maxRetries, has waited once per
\* failed attempt and never more than maxRetries times.
C32_ChainBounded ==
    LET f == frame[1] IN
    (Running(f) /\ f.pc \in InRetry) =>
        /\ f.attempt \in 0..f.maxRetries /\ f.maxRetries = DefaultMaxRetries
        /\ Len(f.waits) <= f.maxRetries
        /\ Len(f.waits) = IF f.pc = "backoff" THEN f.attempt + 1 ELSE f.attempt

\* C32 (no cancellation) -- a running invocation is left only by its own steps:
\* an event, a saved Config or a change of the tabs does not end or restart it.
C32_NotCancelled ==
    LET f == frame[1]
        g == frame'[1]
    IN (Running(f) /\ g # f) =>
           /\ g.caller = "reconciler" /\ g.pc # "query" /\ g.pc # "idle"
           /\ tabs' = tabs /\ storage' = storage
           /\ Rank(g.pc) >= Rank(f.pc)
           /\ (f.pc = "backoff" /\ g.pc \in Sending) => g.attempt = f.attempt + 1

\* C32 -- Termination: provided every tab query, config load and HTTP request
\* eventually resolves or rejects, every invocation of
\* updateMeetingStateIfNeeded eventually finishes: the delivery/backoff chain
\* is never cancelled and ends after at most maxRetries + 1 attempts and
\* maxRetries timed waits with either success or failure.
C32_Termination ==
    /\ Running(frame[1]) ~> (frame[1].pc \in {"done", "rejected"})
    /\ []C32_ChainBounded
    /\ [][C32_NotCancelled]_vars

C32_Witness ==
    /\ frame[1].pc = "done" /\ frame[1].result = "delivered"
    /\ frame[1].config.method = "webhook" /\ frame[1].sent = 4 /\ frame[1].probes = 1
    /\ target = OnOff(frame[1].isInMeeting)

\* the invocation has detected a transition and is about to load the Config
Detected(f) == f.caller = "reconciler" /\ f.pc = "loadConfig"

\* the transition of the invocation has been delivered
Delivered(f) ==
    /\ f.pc = "done" /\ f.result = "delivered"
    /\ target = OnOff(f.isInMeeting)
    /\ wasInMeeting = B(f.isInMeeting)
    /\ badge = PresenceBadge(f.isInMeeting)

\* C33 (indicator) -- with a reachable target the indicator never shows the
\* error state: from the first transition on it is the presence badge of
\* wasInMeeting.
C33_IndicatorStays ==
    /\ badge # BadgeError
    /\ wasInMeeting # "null" => badge = PresenceBadge(wasInMeeting = "true")
    /\ wasInMeeting = "null" => badge = BadgeInitial /\ target = "unknown"

\* C33 -- Eventual delivery: if the Config is valid, the probe succeeds and
\* the target accepts a request within maxRetries + 1 attempts, then after a
\* presence transition with no further overlapping transition the target
\* eventually receives a successful request carrying the new presence value,
\* and the indicator remains in the presence state equal to wasInMeeting.
C33_EventualDelivery ==
    /\ Detected(frame[1]) ~> Delivered(frame[1])
    /\ []C33_IndicatorStays

C33_Witness ==
    /\ Delivered(frame[1]) /\ frame[1].isInMeeting /\ frame[1].sent = 8
    /\ frame[1].config.method = "api"
    /\ previous.pc = "done" /\ previous.result = "delivered" /\ ~previous.isInMeeting

\* C34 (state part) -- while the state-set request is pending, the service
\* call of the same attempt was answered with a non-success status; an
\* attempt whose service request raised a network exception has sent the
\* service call only and is with the retry policy (waiting, or rethrown).
C34_FallbackAfterStatus ==
    \A h \in Handlers :
        LET f == frame[h] IN
        (f.config.method = "api" /\ f.pc \in InRetry) =>
            /\ f.pc = "fallback" =>
                   /\ Len(f.replies) = 1 /\ f.replies[1].kind = "http"
                   /\ f.replies[1].status \notin 200..299
                   /\ Len(f.calls) = 2 /\ f.calls[2].kind = "state"
            /\ (f.replies # <<>> /\ f.replies[1].kind = "network") =>
                   /\ f.pc \in {"backoff", "thrown"}
                   /\ Len(f.replies) = 1 /\ Len(f.calls) = 1 /\ f.calls[1].kind = "service"
                   /\ f.lastError = NetworkError

\* C34 (step part) -- the step that receives a network exception on the
\* service call sends nothing and hands the failure to the retry policy: a
\* backoff wait while attempts are left, the rethrown error otherwise.
C34_StraightToRetry ==
    \A h \in Handlers :
        LET f == frame[h]
            g == frame'[h]
        IN (f.pc = "service" /\ g # f /\ g.replies # <<>> /\ g.replies[1].kind = "network") =>
               /\ g.pc # "fallback" /\ g.sent = f.sent /\ g.calls = f.calls
               /\ target' = target
               /\ IF f.attempt < f.maxRetries
                  THEN g.pc = "backoff" /\ Len(g.waits) = Len(f.waits) + 1
                  ELSE g.pc = "thrown" /\ g.waits = f.waits

\* C34 -- Exception on the service call bypasses the fallback: in
\* setEntityStateAPI the state-set fallback is attempted only after a
\* service-call response with non-success status; if the service-call request
\* itself raises a network exception, that attempt fails without any state-set
\* request and the failure goes straight to the retry policy.
C34_ExceptionBypassesFallback == []C34_FallbackAfterStatus /\ [][C34_StraightToRetry]_vars

C34_Witness ==
    /\ frame[1].pc = "backoff" /\ frame[1].config.method = "api" /\ frame[1].attempt = 1
    /\ frame[1].calls = <<Req("service", FALSE)>>
    /\ frame[1].replies = <<NetworkError>> /\ frame[1].sent = 3

\* c and d have the same method and agree on the field group it selects
SameGroup(c, d) ==
    /\ c.method = d.method
    /\ IF c.method = "api"
       THEN c.host = d.host /\ c.token = d.token /\ c.entity_id = d.entity_id
       ELSE c.webhook_url = d.webhook_url

\* C35 (step part) -- of two calls of validateConfig, one after the other, on
\* Configs that agree on method and on the selected field group, both return
\* the same isValid; their error lists differ only when exactly one of the
\* two Configs is the unconfigured one, and then both are invalid.
C35_GroupDecides ==
    LET f == frame[1]
        g == frame'[1]
    IN (Validated(f) /\ Validated(g) /\ SameGroup(f.config, g.config)) =>
           /\ g.validation.isValid = f.validation.isValid
           /\ g.validation.errors # f.validation.errors =>
                  /\ ~f.validation.isValid /\ ~g.validation.isValid
                  /\ Reports(f.validation, ErrConfigureFirst) # Reports(g.validation, ErrConfigureFirst)

\* C35 (state part) -- the result of a call agrees on isValid with the result
\* for every Config of the same method and selected field group.
C35_OtherGroupIgnored ==
    LET f == frame[1] IN
    Validated(f) =>
        \A d \in ValidatorInputs :
            SameGroup(f.config, d) => validateConfig(d).isValid = f.validation.isValid

\* C35 -- Field-group selection: the isValid result of validateConfig depends
\* only on method and on the field group selected by method (host, token,
\* entity_id for api; webhook_url for webhook): changing fields of the other
\* group never changes isValid, although it can change which error message is
\* returned (configure-first versus field-level errors).
C35_FieldGroupSelection == []C35_OtherGroupIgnored /\ [][C35_GroupDecides]_vars

C35_Witness ==
    /\ Validated(frame[1])
    /\ frame[1].config = Cfg(StrHost, StrEmpty, Undefined, "webhook", StrEmpty)
    /\ frame[1].validation = [isValid |-> FALSE, errors |-> <<ErrWebhookRequired>>]
    /\ validateConfig(Cfg(StrEmpty, StrEmpty, Undefined, "webhook", StrEmpty)).errors
           = <<ErrConfigureFirst>>

\* C36 (state part) -- an invocation that ended at the comparison loaded no
\* Config and sent neither probe nor request; when the invocation before it
\* had failed, the error indicator is still displayed.
C36_NothingDone ==
    LET f == frame[1] IN
    (f.caller = "reconciler" /\ f.pc = "done" /\ f.result = "nochange") =>
        /\ f.prev = B(f.isInMeeting) /\ wasInMeeting = f.prev
        /\ f.validation = NoValidation /\ f.probes = 0 /\ f.sent = 0
        /\ (previous.pc = "done" /\ previous.result \in Failures) => badge = BadgeError

\* C36 (step part) -- the step of an invocation whose observed presence
\* equals wasInMeeting ends it and changes nothing else; the error indicator
\* is replaced only in the step that detects a transition, by the presence
\* indicator of that transition.
C36_Frame ==
    /\ \A h \in Handlers :
           (frame[h].pc = "queried" /\ frame'[h] # frame[h]
            /\ wasInMeeting = B(frame[h].isInMeeting)) =>
               /\ frame'[h].pc = "done" /\ frame'[h].result = "nochange"
               /\ UNCHANGED <<wasInMeeting, badge, target, tabs, storage>>
               /\ \A g \in Handlers \ {h} : frame'[g] = frame[g]
    /\ (badge = BadgeError /\ badge' # BadgeError) =>
           \E h \in Handlers :
               /\ frame[h].pc = "queried" /\ frame'[h].pc = "loadConfig"
               /\ wasInMeeting # B(frame[h].isInMeeting)
               /\ badge' = PresenceBadge(frame[h].isInMeeting)
               /\ wasInMeeting' = B(frame[h].isInMeeting)

\* C36 -- No-op frame: an invocation whose observed presence equals
\* wasInMeeting changes nothing: wasInMeeting and the indicator are left
\* unchanged (an error indicator from an earlier failed delivery stays
\* displayed), and no config load, probe or delivery request happens; the
\* error indicator is replaced only by the presence indicator of the next
\* detected transition.
C36_NoOpFrame == []C36_NothingDone /\ [][C36_Frame]_vars

C36_Witness ==
    /\ frame[1].pc = "done" /\ frame[1].result = "nochange" /\ frame[1].isInMeeting
    /\ previous.pc = "done" /\ previous.result = "failed" /\ previous.isInMeeting
    /\ badge = BadgeError /\ wasInMeeting = "true" /\ target # "on"

\* the invocations suspended between their tab query and their comparison
Querying == {h \in Handlers : frame[h].caller = "reconciler" /\ frame[h].pc \in {"query", "queried"}}

\* C37 (state part) -- whenever no invocation is between its tab query and
\* its comparison, wasInMeeting is null if no query was ever issued, and
\* otherwise the presence returned by the most recently issued query.
C37_Quiescent ==
    /\ Querying = {queries.pending[i] : i \in 1..Len(queries.pending)}
    /\ Querying = {} =>
           IF queries.latest = 0
           THEN wasInMeeting = "null"
           ELSE /\ wasInMeeting = B(frame[queries.latest].isInMeeting)
                /\ frame[queries.latest].prev # "unset"

\* C37 (step part) -- the comparison of an invocation leaves wasInMeeting at
\* the presence its query returned, whether it detected a change or not.
C37_ComparisonSets ==
    \A h \in Handlers :
        Compared(h) =>
            /\ wasInMeeting' = B(frame[h].isInMeeting)
            /\ frame'[h].isInMeeting = frame[h].isInMeeting

\* C37 -- Quiescent consistency of the cache: if tab-query results are
\* delivered to handlers in the order the queries were issued, then whenever
\* no invocation is suspended between its tab query and its comparison step,
\* wasInMeeting is null (no query completed yet) or equals the presence
\* returned by the most recently issued query.
C37_QuiescentConsistency == []C37_Quiescent /\ [][C37_ComparisonSets]_vars

C37_Witness ==
    /\ queries = [pending |-> <<>>, latest |-> 2]
    /\ frame[1].pc \in Sending /\ frame[1].isInMeeting /\ frame[1].attempt = 1
    /\ frame[2].pc = "backoff" /\ ~frame[2].isInMeeting
    /\ wasInMeeting = "false" /\ tabs > 0

\* one call of setEntityStateWebhook has ended, by returning or by throwing
Sent(f) == f.caller = "direct" /\ f.config.method = "webhook" /\ f.pc \in {"returned", "thrown"}

\* C38 -- Test and delivery disagree on success statuses:
\* testConnectionWebhook accepts only status 200 whereas setEntityStateWebhook
\* accepts every success status (200-299), so for a webhook answering with a
\* status in 201-299 the connection test reports failure although automatic
\* delivery to the same URL succeeds; no status makes the test succeed and the
\* delivery fail.
C38_TestStricterThanDelivery ==
    LET d == frame[1]
        t == frame[TestSlot]
    IN (Sent(d) /\ Tested(t) /\ t.config.method = "webhook" /\ d.replies = t.replies) =>
           LET r == t.replies[1] IN
           /\ t.outcome.success <=> (r.kind = "http" /\ r.status = 200)
           /\ d.pc = "returned" <=> (r.kind = "http" /\ r.status \in 200..299)
           /\ (r.kind = "http" /\ r.status \in 201..299) =>
                  ~t.outcome.success /\ d.pc = "returned"
           /\ t.outcome.success => d.pc = "returned"

C38_Witness ==
    /\ Sent(frame[1]) /\ frame[1].pc = "returned" /\ frame[1].replies = <<Http(204)>>
    /\ ~frame[1].isInMeeting /\ target = "off"
    /\ Tested(frame[TestSlot]) /\ frame[TestSlot].replies = <<Http(204)>>
    /\ frame[TestSlot].outcome = WithStatus("test.webhookFailed", 204)

\* the error messages validateConfig can return
ErrorMessages ==
    {ErrConfigureFirst, ErrHostRequired, ErrHostScheme, ErrEntityRequired,
     ErrTokenRequired, ErrWebhookRequired}

\* C39 (state part) -- the result of validateConfig is valid exactly when its
\* error list is empty, an invalid result carries at least one error, every
\* error is one of the validator's messages, and the Config the call was
\* given is one of the inputs, unchanged.
C39_Shape ==
    LET f == frame[1] IN
    Validated(f) =>
        /\ f.validation.isValid \in BOOLEAN
        /\ f.validation.isValid <=> f.validation.errors = <<>>
        /\ ~f.validation.isValid => Len(f.validation.errors) >= 1
        /\ \A i \in 1..Len(f.validation.errors) : f.validation.errors[i] \in ErrorMessages
        /\ f.config \in ValidatorInputs

\* C39 (step part) -- a call of validateConfig changes nothing but its own
\* result: the stored Config, wasInMeeting, the badge, the target and the tabs
\* are as before, and the Config it was given still validates to that result.
C39_Pure ==
    LET f == frame[1]
        g == frame'[1]
    IN (Validated(g) /\ g # f) =>
           /\ UNCHANGED <<tabs, storage, wasInMeeting, badge, target, previous, queries>>
           /\ g.sent = 0 /\ g.probes = 0 /\ g.calls = <<>>
           /\ g.validation = validateConfig(g.config)

\* C39 -- Validator result shape: for every Config, validateConfig returns
\* isValid = true if and only if its error list is empty, every invalid result
\* carries at least one error, and the function does not modify its input or
\* any other state.
C39_ResultShape == []C39_Shape /\ [][C39_Pure]_vars

C39_Witness ==
    /\ Validated(frame[1])
    /\ frame[1].config = Cfg(StrHostBare, Placeholder, StrBlank, "api", StrHook)
    /\ frame[1].validation =
           [isValid |-> FALSE, errors |-> <<ErrHostScheme, ErrEntityRequired, ErrTokenRequired>>]

====
